---- MODULE Spec2Model ----
(***************************************************************************)
(* Endecrypt: file encryption into a self-describing container             *)
(* (AES-GCM, PBKDF2), and LSB steganography of a container in an image.    *)
(*                                                                         *)
(* Byte buffers (Uint8Array, ArrayBuffer, Blob) are sequences of naturals  *)
(* 0..255, 1-based; a JavaScript index i is the sequence index i + 1.      *)
(***************************************************************************)
EXTENDS Integers, Sequences, FiniteSets, TLC

(***************************************************************************)
(* Bounds of the model.                                                    *)
(***************************************************************************)
\* longest payload handed to LSBEncoder.hide
MaxPayloadLen == 3
\* largest length a foreign image's header bits are made to declare
MaxDeclared == 25
\* most ciphertext chunks given to buildEncryptedFile on its own
MaxCodecChunks == 2
\* most bytes between the header and the length field of a foreign buffer
MaxForeignBody == 3
\* the chunk size of ChunkedFileReader, scaled down from 10 MiB
CHUNK_SIZE == 2
\* largest file given to the encryption page
MaxFileSize == 5
\* bytes of an AES-GCM authentication tag, scaled down from 16
TagLength == 2

(***************************************************************************)
(* Generic helpers.                                                        *)
(***************************************************************************)
Min(a, b) == IF a < b THEN a ELSE b

Pow2(n) == 2 ^ n

\* the element of a one-element set; The({F(x) : x \in {e}}) is F(e) with
\* e evaluated once
The(S) == CHOOSE x \in S : TRUE

\* sequences over S of length 0..n
SeqsUpTo(S, n) == UNION {[1..k -> S] : k \in 0..n}

\* JavaScript slice(from, to) of a typed array, 0-based, end exclusive
Slice(s, from, to) == [k \in 1..(to - from) |-> s[from + k]]

\* DataView.setUint32(0, n): big-endian
U32BE(n) == <<(n \div 16777216) % 256, (n \div 65536) % 256, (n \div 256) % 256, n % 256>>

\* DataView.getUint32(0): big-endian.  A value of 2^31 or more is
\* represented by 2^31 - 1: it is only compared with small numbers.
GetU32BE(b) ==
  IF b[1] >= 128 THEN 2147483647
  ELSE b[1] * 16777216 + b[2] * 65536 + b[3] * 256 + b[4]

(***************************************************************************)
(* State.                                                                  *)
(***************************************************************************)
\* LSBEncoder calls
VARIABLES
  stPhase,      \* "idle", "hidden", "hideFailed", "revealed", "revealFailed"
  stCover,      \* the cover image given to hide
  stSecret,     \* the secretData given to hide
  stImage,      \* the image hide produced (the PNG's pixels)
  stRevealIn,   \* the image given to reveal
  stRevealOut,  \* the Uint8Array reveal returned
  stError       \* the message of the Error hide or reveal threw, "" if none

stegoVars == <<stPhase, stCover, stSecret, stImage, stRevealIn, stRevealOut, stError>>

\* container codec calls
VARIABLES
  cdPhase,    \* "idle", "built", "parsed"
  cdInput,    \* the arguments of the build: [salt, iv, chunks, metadata]
  cdBytes,    \* the buffer built, or the buffer given to the parser
  cdParsed    \* what parseEncryptedFile returned or threw

codecVars == <<cdPhase, cdInput, cdBytes, cdParsed>>

\* the encryption and decryption pages of the application
VARIABLES
  encryptFile,      \* the global encryptFile: the File selected, or NoFile
  encPc,            \* where handleEncryption stands: "idle", "prepareKey",
                    \* "read", "encrypt", "done"
  encRun,           \* the locals of the running handleEncryption
  encryptStatus,    \* the message last shown in #encrypt-status
  downloaded,       \* the file Downloader.download last saved, or NoFile
  sealed,           \* every <<key, iv, ciphertext and tag>> AES-GCM has sealed
  nonceLog,         \* the iv of each encryptChunk call of the run, in order
  decryptFile,      \* the global decryptFile: the File selected, or NoFile
  tampered,         \* the file selected is the download with one bit flipped
  decPc,            \* "idle", "ready", "rejected", "decrypted", "failed"
  decryptPassword,  \* the value of #decrypt-password when Decrypt was clicked
  decrypted,        \* currentDecryptedBlob and currentDecryptedFilename
  decryptStatus     \* the message last shown in #decrypt-status

appVars ==
  <<encryptFile, encPc, encRun, encryptStatus, downloaded, sealed, nonceLog,
    decryptFile, tampered, decPc, decryptPassword, decrypted, decryptStatus>>

\* key preparation calls
VARIABLES
  kmPhase,    \* "idle", "derived", "encryptionKey", "decryptionKey"
  kmInput,    \* the arguments of the call: [metadata, password, salt]
  kmResult    \* what the call returned or threw: [ok, error, key, keyData]

keyVars == <<kmPhase, kmInput, kmResult>>

\* the hide view of the steganography page
VARIABLES
  stegoCoverFile,    \* the global stegoCoverFile: the image selected, or NoCover
  stegoSecretFile,   \* the global stegoSecretFile: the File selected, or NoFile
  stegoMaxBytes,     \* the global stegoMaxBytes
  stegoPc,           \* "idle", "hidden", "failed": how the hide click ended
  stegoContainer,    \* encryptedBuffer: the container the hide click built
  stegoDownloaded,   \* the image Downloader.download saved, or NoCover
  stegoHideStatus    \* the message last shown in #stego-hide-status

pageVars ==
  <<stegoCoverFile, stegoSecretFile, stegoMaxBytes, stegoPc, stegoContainer,
    stegoDownloaded, stegoHideStatus>>

\* a BlobBuilder
VARIABLES
  bbChunks,   \* this.chunks: a sparse array, one [defined, data] per position
  bbOrder,    \* the addChunk calls since the constructor or clear, in order
  bbBuilt     \* the blob of the last build since the constructor or clear, with
              \* the array and the addChunk calls it was built from

blobVars == <<bbChunks, bbOrder, bbBuilt>>

\* the crypto worker
VARIABLES
  wkInbox,    \* the messages posted to the worker and not yet received
  wkPending,  \* the requests whose handler awaits its crypto call
  wkOutbox,   \* the messages the worker has posted, each with its request
  wkPosted    \* the number of requests posted so far

workerVars == <<wkInbox, wkPending, wkOutbox, wkPosted>>

\* the controls of the encryption page
VARIABLES
  encryptBtnDisabled,   \* the disabled property of #encrypt-btn
  resetScheduled        \* the setTimeout of resetEncryptionForm is pending

encPageVars == <<encryptBtnDisabled, resetScheduled>>

\* the progress bar of the encryption page during one run
VARIABLES
  pgFile,     \* the file of the run, or NoFile
  pgOffset,   \* the offset of the reader
  pgPc,       \* "idle", "loop", "built", "complete"
  pgLog       \* the values passed to encryptProgressTracker.update, in order

progressVars == <<pgFile, pgOffset, pgPc, pgLog>>

\* the variables of the pages but sealed
pagesButSealed ==
  <<encryptFile, encPc, encRun, encryptStatus, downloaded, nonceLog, decryptFile, tampered,
    decPc, decryptPassword, decrypted, decryptStatus, encPageVars>>

\* what the steps of one component leave unchanged
notStego == <<codecVars, appVars, encPageVars, keyVars, pageVars, blobVars, workerVars, progressVars>>
notCodec == <<stegoVars, appVars, encPageVars, keyVars, pageVars, blobVars, workerVars, progressVars>>
notEncPage == <<stegoVars, codecVars, keyVars, pageVars, blobVars, workerVars, progressVars>>
notApp == <<notEncPage, encPageVars>>
notKeys == <<stegoVars, codecVars, appVars, encPageVars, pageVars, blobVars, workerVars, progressVars>>
notPage == <<stegoVars, codecVars, keyVars, pagesButSealed, blobVars, workerVars, progressVars>>
notBlob == <<stegoVars, codecVars, appVars, encPageVars, keyVars, pageVars, workerVars, progressVars>>
notWorker == <<stegoVars, codecVars, keyVars, pagesButSealed, pageVars, blobVars, progressVars>>

vars == <<stegoVars, codecVars, appVars, encPageVars, keyVars, pageVars, blobVars, workerVars,
         progressVars>>

(***************************************************************************)
(* Text: JSON.stringify, TextEncoder, TextDecoder, JSON.parse.             *)
(* A string is a sequence of code points (below 2048 in this model).  A    *)
(* JSON value is a record [t, s, n, b, m]: t its type, s the characters    *)
(* of a string or the numbers of an array, n a number, b a boolean, m the  *)
(* members [k, v] of an object in insertion order.                         *)
(***************************************************************************)
JNull == [t |-> "null", s |-> <<>>, n |-> 0, b |-> FALSE, m |-> <<>>]
JUndefined == [t |-> "undefined", s |-> <<>>, n |-> 0, b |-> FALSE, m |-> <<>>]
JStr(str) == [t |-> "string", s |-> str, n |-> 0, b |-> FALSE, m |-> <<>>]
JNum(num) == [t |-> "number", s |-> <<>>, n |-> num, b |-> FALSE, m |-> <<>>]
JBool(bool) == [t |-> "boolean", s |-> <<>>, n |-> 0, b |-> bool, m |-> <<>>]
JArr(nums) == [t |-> "array", s |-> nums, n |-> 0, b |-> FALSE, m |-> <<>>]
JObj(members) == [t |-> "object", s |-> <<>>, n |-> 0, b |-> FALSE, m |-> members]

\* obj.name of a parsed value: undefined when the property is missing or
\* the value is no object
Prop(obj, name) ==
  IF \E k \in 1..Len(obj.m) : obj.m[k].k = name
  THEN obj.m[CHOOSE k \in 1..Len(obj.m) : obj.m[k].k = name].v
  ELSE JUndefined

\* JavaScript truthiness: if (v), !v, v || d
Truthy(v) ==
  CASE v.t = "undefined" -> FALSE
    [] v.t = "null" -> FALSE
    [] v.t = "boolean" -> v.b
    [] v.t = "number" -> v.n # 0
    [] v.t = "string" -> v.s # <<>>
    [] OTHER -> TRUE

\* the least element of the interval lo..hi that satisfies P, or hi + 1
Least(lo, hi, P(_)) ==
  IF \E j \in lo..hi : P(j)
  THEN CHOOSE j \in lo..hi : P(j) /\ \A k \in lo..(j - 1) : ~P(k)
  ELSE hi + 1

IsDigit(c) == c \in 48..57

\* the decimal digits of a natural number
RECURSIVE Digits(_)
Digits(num) == IF num < 10 THEN <<48 + num>> ELSE Digits(num \div 10) \o <<48 + (num % 10)>>

\* the characters of a JSON string literal's content: " and \ escaped
RECURSIVE EscapeString(_)
EscapeString(str) ==
  IF Len(str) = 0 THEN <<>>
  ELSE IF Len(str) = 1
       THEN (IF str[1] = 34 \/ str[1] = 92 THEN <<92, str[1]>> ELSE str)
  ELSE LET h == Len(str) \div 2
       IN EscapeString(SubSeq(str, 1, h)) \o EscapeString(SubSeq(str, h + 1, Len(str)))

Quoted(str) == <<34>> \o EscapeString(str) \o <<34>>

\* the numbers of an array joined by commas
RECURSIVE JoinNumbers(_)
JoinNumbers(nums) ==
  IF Len(nums) = 0 THEN <<>>
  ELSE IF Len(nums) = 1 THEN Digits(nums[1])
  ELSE JoinNumbers(SubSeq(nums, 1, Len(nums) - 1)) \o <<44>> \o Digits(nums[Len(nums)])

\* JSON.stringify of a value that is no object
StringifyScalar(v) ==
  CASE v.t = "null" -> <<110, 117, 108, 108>>
    [] v.t = "boolean" -> (IF v.b THEN <<116, 114, 117, 101>> ELSE <<102, 97, 108, 115, 101>>)
    [] v.t = "number" -> Digits(v.n)
    [] v.t = "string" -> Quoted(v.s)
    [] v.t = "array" -> <<91>> \o JoinNumbers(v.s) \o <<93>>

\* "key":value of the members k..Len, joined by commas
RECURSIVE StringifyMembers(_, _)
StringifyMembers(members, k) ==
  IF k > Len(members) THEN <<>>
  ELSE Quoted(members[k].k) \o <<58>> \o StringifyScalar(members[k].v)
       \o (IF k < Len(members) THEN <<44>> ELSE <<>>)
       \o StringifyMembers(members, k + 1)

\* JSON.stringify
JSONStringify(v) ==
  IF v.t = "object" THEN <<123>> \o StringifyMembers(v.m, 1) \o <<125>>
  ELSE StringifyScalar(v)

\* TextEncoder.encode: UTF-8
RECURSIVE Utf8Encode(_)
Utf8Encode(str) ==
  IF Len(str) = 0 THEN <<>>
  ELSE IF Len(str) = 1
       THEN (IF str[1] < 128 THEN str
             ELSE <<192 + (str[1] \div 64), 128 + (str[1] % 64)>>)
  ELSE LET h == Len(str) \div 2
       IN Utf8Encode(SubSeq(str, 1, h)) \o Utf8Encode(SubSeq(str, h + 1, Len(str)))

\* the code points of the byte positions starts
DecodeAt(bytes, starts) ==
  LET n == Len(bytes)
      IsLead2(i) == bytes[i] \in 194..223 /\ i < n /\ bytes[i + 1] \in 128..191
  IN [k \in 1..Len(starts) |->
        LET i == starts[k]
        IN IF bytes[i] < 128 THEN bytes[i]
           ELSE IF IsLead2(i) THEN (bytes[i] - 192) * 64 + (bytes[i + 1] - 128)
           ELSE 65533]

\* TextDecoder.decode: UTF-8, a malformed byte decoded as U+FFFD
Utf8Decode(bytes) ==
  LET n == Len(bytes)
      IsCont(i) == bytes[i] \in 128..191
      Consumed(i) == i > 1 /\ IsCont(i) /\ bytes[i - 1] \in 194..223
  IN The({DecodeAt(bytes, starts) :
            starts \in {SelectSeq([i \in 1..n |-> i], LAMBDA i : ~Consumed(i))}})

\* the number of consecutive backslashes that end just before position j,
\* looking back no further than position lo
BackslashRun(text, lo, j) == Least(1, j - lo, LAMBDA d : text[j - d] # 92) - 1

\* the position of the quote that closes the string literal opened at
\* position i, or Len(text) + 1
ClosingQuote(text, i) ==
  Least(i + 1, Len(text),
        LAMBDA j : text[j] = 34 /\ BackslashRun(text, i + 1, j) % 2 = 0)

\* the character an escape \c stands for, -1 when JSON has no such escape
\* (\uXXXX is outside this model)
EscapedChar(c) ==
  CASE c = 34 -> 34
    [] c = 92 -> 92
    [] c = 47 -> 47
    [] c = 98 -> 8
    [] c = 102 -> 12
    [] c = 110 -> 10
    [] c = 114 -> 13
    [] c = 116 -> 9
    [] OTHER -> -1

\* the content of a string literal decoded; ok is FALSE for a control
\* character or an unknown escape
Unescape(content) ==
  LET n == Len(content)
      Intro(i) == content[i] = 92 /\ BackslashRun(content, 1, i) % 2 = 0
      Escaped(i) == i > 1 /\ Intro(i - 1)
      Decoded(kept) ==
        [k \in 1..Len(kept) |->
           IF Escaped(kept[k]) THEN EscapedChar(content[kept[k]]) ELSE content[kept[k]]]
  IN [ok |-> \A i \in 1..n :
               IF Escaped(i) THEN EscapedChar(content[i]) # -1
               ELSE content[i] >= 32,
      s |-> The({Decoded(kept) :
                   kept \in {SelectSeq([i \in 1..n |-> i], LAMBDA i : ~Intro(i))}})]

\* the value of a run of decimal digits
RECURSIVE DigitsValue(_)
DigitsValue(ds) ==
  IF Len(ds) = 0 THEN 0
  ELSE 10 * DigitsValue(SubSeq(ds, 1, Len(ds) - 1)) + (ds[Len(ds)] - 48)

\* a JSON integer: digits, no leading zero
IsInteger(ds) ==
  /\ Len(ds) >= 1
  /\ \A k \in 1..Len(ds) : IsDigit(ds[k])
  /\ (Len(ds) > 1 => ds[1] # 48)

ParseFail == [ok |-> FALSE, v |-> JUndefined, next |-> 0]

\* the numbers between the brackets of an array literal
ParseNumbers(inner) ==
  LET n == Len(inner)
      Items(commas) ==
        LET count == Len(commas) + 1
            from(k) == IF k = 1 THEN 1 ELSE commas[k - 1] + 1
            to(k) == IF k = count THEN n ELSE commas[k] - 1
            item(k) == SubSeq(inner, from(k), to(k))
        IN [ok |-> \A k \in 1..count : IsInteger(item(k)),
            s |-> [k \in 1..count |-> DigitsValue(item(k))]]
  IN IF n = 0 THEN [ok |-> TRUE, s |-> <<>>]
     ELSE The({Items(commas) :
                 commas \in {SelectSeq([i \in 1..n |-> i], LAMBDA i : inner[i] = 44)}})

\* the string literal opened at position i, closed at position close
StringAt(text, i, close) ==
  IF close > Len(text) THEN ParseFail
  ELSE The({IF u.ok THEN [ok |-> TRUE, v |-> JStr(u.s), next |-> close + 1] ELSE ParseFail :
              u \in {Unescape(SubSeq(text, i + 1, close - 1))}})

\* the number whose digits are at positions i..end - 1
NumberAt(text, i, end) ==
  The({IF IsInteger(ds) THEN [ok |-> TRUE, v |-> JNum(DigitsValue(ds)), next |-> end]
       ELSE ParseFail :
         ds \in {SubSeq(text, i, end - 1)}})

\* the array literal opened at position i, closed at position close
ArrayAt(text, i, close) ==
  IF close > Len(text) THEN ParseFail
  ELSE The({IF p.ok THEN [ok |-> TRUE, v |-> JArr(p.s), next |-> close + 1] ELSE ParseFail :
              p \in {ParseNumbers(SubSeq(text, i + 1, close - 1))}})

\* the JSON value that starts at position i (no object, no nested array,
\* no fraction, exponent or sign: those are outside this model) and the
\* position after it
ParseScalarAt(text, i) ==
  LET n == Len(text)
      Is(word) == i + Len(word) - 1 <= n /\ SubSeq(text, i, i + Len(word) - 1) = word
  IN IF i > n THEN ParseFail
     ELSE IF text[i] = 34
     THEN The({StringAt(text, i, close) : close \in {ClosingQuote(text, i)}})
     ELSE IF IsDigit(text[i])
     THEN The({NumberAt(text, i, end) : end \in {Least(i, n, LAMBDA j : ~IsDigit(text[j]))}})
     ELSE IF text[i] = 91
     THEN The({ArrayAt(text, i, close) : close \in {Least(i + 1, n, LAMBDA j : text[j] = 93)}})
     ELSE IF Is(<<116, 114, 117, 101>>) THEN [ok |-> TRUE, v |-> JBool(TRUE), next |-> i + 4]
     ELSE IF Is(<<102, 97, 108, 115, 101>>) THEN [ok |-> TRUE, v |-> JBool(FALSE), next |-> i + 5]
     ELSE IF Is(<<110, 117, 108, 108>>) THEN [ok |-> TRUE, v |-> JNull, next |-> i + 4]
     ELSE ParseFail

\* the members of an object from position i (a key's opening quote) to
\* the closing brace, which must end the text; acc the members before i
RECURSIVE ParseMembers(_, _, _)
ParseMember(text, acc, key, val) ==
  LET n == Len(text)
  IN IF ~key.ok \/ key.next > n \/ text[key.next] # 58 \/ ~val.ok \/ val.next > n
     THEN ParseFail
     ELSE The({IF text[val.next] = 125
               THEN (IF val.next = n THEN [ok |-> TRUE, v |-> JObj(members), next |-> n + 1]
                     ELSE ParseFail)
               ELSE IF text[val.next] = 44 THEN ParseMembers(text, val.next + 1, members)
               ELSE ParseFail :
                 members \in {Append(acc, [k |-> key.v.s, v |-> val.v])}})

ParseMembers(text, i, acc) ==
  IF i > Len(text) \/ text[i] # 34 THEN ParseFail
  ELSE The({The({ParseMember(text, acc, key, val) :
                   val \in {IF key.ok THEN ParseScalarAt(text, key.next + 1) ELSE ParseFail}}) :
              key \in {ParseScalarAt(text, i)}})

\* JSON.parse of a text that is evaluated
ParseText(text) ==
  LET n == Len(text)
  IN IF n = 0 THEN ParseFail
     ELSE IF text[1] = 123
     THEN (IF n = 2 /\ text[2] = 125 THEN [ok |-> TRUE, v |-> JObj(<<>>), next |-> 3]
           ELSE ParseMembers(text, 2, <<>>))
     ELSE The({IF r.ok /\ r.next = n + 1 THEN r ELSE ParseFail : r \in {ParseScalarAt(text, 1)}})

\* JSON.parse: ok is FALSE where it throws a SyntaxError
JSONParse(input) == The({ParseText(text) : text \in {input}})

(***************************************************************************)
(* Encryptor (src/src/crypto/encryptor.js): metadata and container build.  *)
(***************************************************************************)
\* the property names of the metadata object
K_version == <<118, 101, 114, 115, 105, 111, 110>>
K_filename == <<102, 105, 108, 101, 110, 97, 109, 101>>
K_mimeType == <<109, 105, 109, 101, 84, 121, 112, 101>>
K_hasPassword == <<104, 97, 115, 80, 97, 115, 115, 119, 111, 114, 100>>
K_chunksCount == <<99, 104, 117, 110, 107, 115, 67, 111, 117, 110, 116>>
K_timestamp == <<116, 105, 109, 101, 115, 116, 97, 109, 112>>
K_key == <<107, 101, 121>>

\* '1.0'
VersionString == <<49, 46, 48>>

\* String.prototype.toLowerCase on ASCII letters
ToLowerCase(str) == [i \in 1..Len(str) |-> IF str[i] \in 65..90 THEN str[i] + 32 ELSE str[i]]

\* Encryptor.createMetadata normalising the MIME type to lower case
createMetadata_LowerCase(filename, mimeType, hasPassword, chunksCount, keyData, now) ==
  JObj(<<[k |-> K_version, v |-> JStr(VersionString)],
         [k |-> K_filename, v |-> JStr(filename)],
         [k |-> K_mimeType, v |-> JStr(ToLowerCase(mimeType))],
         [k |-> K_hasPassword, v |-> JBool(hasPassword)],
         [k |-> K_chunksCount, v |-> JNum(chunksCount)],
         [k |-> K_timestamp, v |-> JNum(now)],
         [k |-> K_key, v |-> IF keyData # <<>> THEN JArr(keyData) ELSE JNull]>>)

\* Encryptor.createMetadata recording a single chunk whatever it is given
createMetadata_OneChunk(filename, mimeType, hasPassword, chunksCount, keyData, now) ==
  JObj(<<[k |-> K_version, v |-> JStr(VersionString)],
         [k |-> K_filename, v |-> JStr(filename)],
         [k |-> K_mimeType, v |-> JStr(mimeType)],
         [k |-> K_hasPassword, v |-> JBool(hasPassword)],
         [k |-> K_chunksCount, v |-> JNum(1)],
         [k |-> K_timestamp, v |-> JNum(now)],
         [k |-> K_key, v |-> IF keyData # <<>> THEN JArr(keyData) ELSE JNull]>>)

\* Encryptor.createMetadata; keyData is <<>> for null, now the value of Date.now()
createMetadata(filename, mimeType, hasPassword, chunksCount, keyData, now) ==
  JObj(<<[k |-> K_version, v |-> JStr(VersionString)],
         [k |-> K_filename, v |-> JStr(filename)],
         [k |-> K_mimeType, v |-> JStr(mimeType)],
         [k |-> K_hasPassword, v |-> JBool(hasPassword)],
         [k |-> K_chunksCount, v |-> JNum(chunksCount)],
         [k |-> K_timestamp, v |-> JNum(now)],
         [k |-> K_key, v |-> IF keyData # <<>> THEN JArr(keyData) ELSE JNull]>>)

\* DataView.setUint32(offset, n, true): little-endian
U32LE(n) == <<n % 256, (n \div 256) % 256, (n \div 65536) % 256, (n \div 16777216) % 256>>

\* DataView.getUint32(0, true): little-endian.  A value of 2^31 or more is
\* represented by 2^31 - 1: it is only compared with buffer lengths.
GetU32LE(b) ==
  IF b[4] >= 128 THEN 2147483647
  ELSE b[1] + b[2] * 256 + b[3] * 65536 + b[4] * 16777216

\* Encryptor.serializeMetadata: the JSON bytes, then their length
serializeMetadata(metadata) ==
  LET metadataBytes == Utf8Encode(JSONStringify(metadata))
  IN metadataBytes \o U32LE(Len(metadataBytes))

\* the parts of a Blob concatenated
RECURSIVE ConcatAll(_)
ConcatAll(parts) ==
  IF Len(parts) = 0 THEN <<>>
  ELSE ConcatAll(SubSeq(parts, 1, Len(parts) - 1)) \o parts[Len(parts)]

\* Encryptor.buildEncryptedFile: the bytes of the Blob
buildEncryptedFile(salt, iv, encryptedChunks, metadata) ==
  ConcatAll(<<salt, iv>> \o encryptedChunks \o <<metadata>>)

(***************************************************************************)
(* Decryptor.parseEncryptedFile (src/unnamed/part_003).                    *)
(***************************************************************************)
ErrTooSmall == "File is too small to be a valid encrypted file"
ErrMetadataLength == "Invalid metadata length in encrypted file"
ErrOverlap == "Invalid file structure: metadata overlaps with header"
ErrMetadataJSON == "Invalid metadata JSON"

ParseError(message) ==
  [ok |-> FALSE, error |-> message, salt |-> <<>>, iv |-> <<>>, encryptedData |-> <<>>,
   metadata |-> JUndefined]

\* parseEncryptedFile from the overlap check on: data the bytes,
\* metadataStart the offset of the metadata
ParseBody(data, metadataStart) ==
  IF metadataStart < 28 THEN ParseError(ErrOverlap)
  ELSE The({IF ~parsed.ok THEN ParseError(ErrMetadataJSON)
            ELSE [ok |-> TRUE, error |-> "", salt |-> Slice(data, 0, 16),
                  iv |-> Slice(data, 16, 28),
                  encryptedData |-> Slice(data, 28, metadataStart), metadata |-> parsed.v] :
              parsed \in {JSONParse(Utf8Decode(Slice(data, metadataStart, Len(data) - 4)))}})

\* parseEncryptedFile reading the length big-endian
parseEncryptedFile_BigEndian(fileData) ==
  The({IF Len(data) < 28 + 4 THEN ParseError(ErrTooSmall)
       ELSE The({IF metadataLength <= 0 \/ metadataLength > Len(data) - 32
                 THEN ParseError(ErrMetadataLength)
                 ELSE ParseBody(data, Len(data) - 4 - metadataLength) :
                   metadataLength \in {GetU32BE(Slice(data, Len(data) - 4, Len(data)))}}) :
         data \in {fileData}})

\* Decryptor.parseEncryptedFile
parseEncryptedFile(fileData) ==
  The({IF Len(data) < 28 + 4 THEN ParseError(ErrTooSmall)
       ELSE The({IF metadataLength <= 0 \/ metadataLength > Len(data) - 32
                 THEN ParseError(ErrMetadataLength)
                 ELSE ParseBody(data, Len(data) - 4 - metadataLength) :
                   metadataLength \in {GetU32LE(Slice(data, Len(data) - 4, Len(data)))}}) :
         data \in {fileData}})

(***************************************************************************)
(* The container codec run on its own: build then parse, and parse of      *)
(* buffers that no build produced.                                         *)
(***************************************************************************)
NoInput == [salt |-> <<>>, iv |-> <<>>, chunks |-> <<>>, metadata |-> JUndefined]

\* a buffer of n bytes that count up from seed
Filled(n, seed) == [k \in 1..n |-> (seed + 29 * k) % 256]

CodecSalts == {Filled(16, 7), Filled(16, 130)}
CodecIVs == {Filled(12, 3)}

\* ciphertext chunks: any bytes, those of JSON punctuation included
CodecChunks == {<<0>>, <<125, 34>>, <<255, 1, 123>>}

CodecChunkLists == SeqsUpTo(CodecChunks, MaxCodecChunks)

CodecNames == {<<97>>, <<233, 34, 92>>}

CodecMetadata ==
  {createMetadata(name, <<65, 47, 98>>, TRUE, count, <<>>, 1730) :
     name \in CodecNames, count \in {0, 12}}
  \cup {createMetadata(name, <<>>, FALSE, 1, key, 0) :
     name \in CodecNames, key \in {<<0, 255>>, <<7, 7, 7>>}}

\* buffers no build produced: a 28-byte header, up to MaxForeignBody bytes
\* of JSON-like text, a 4-byte length field; and buffers cut short
ForeignAlphabet == {49, 123, 125, 34}

ForeignLengthFields ==
  {U32LE(n) : n \in 0..(MaxForeignBody + 2)} \cup {<<255, 255, 255, 255>>, <<0, 1, 0, 0>>}

ForeignBuffers ==
  {Filled(28, 7) \o body \o len :
     body \in SeqsUpTo(ForeignAlphabet, MaxForeignBody), len \in ForeignLengthFields}
  \cup {Filled(n, 7) : n \in {0, 3, 31}}

CodecInit ==
  /\ cdPhase = "idle"
  /\ cdInput = NoInput
  /\ cdBytes = <<>>
  /\ cdParsed = ParseError("")

\* serializeMetadata, then buildEncryptedFile
CodecBuild ==
  /\ cdPhase = "idle"
  /\ \E salt \in CodecSalts, iv \in CodecIVs, chunks \in CodecChunkLists,
        metadata \in CodecMetadata :
       /\ cdInput' = [salt |-> salt, iv |-> iv, chunks |-> chunks, metadata |-> metadata]
       /\ cdBytes' = buildEncryptedFile(salt, iv, chunks, serializeMetadata(metadata))
  /\ cdPhase' = "built"
  /\ UNCHANGED cdParsed
  /\ UNCHANGED notCodec

\* parseEncryptedFile on the buffer built
CodecParse ==
  /\ cdPhase = "built"
  /\ cdParsed' = parseEncryptedFile(cdBytes)
  /\ cdPhase' = "parsed"
  /\ UNCHANGED <<cdInput, cdBytes>>
  /\ UNCHANGED notCodec

\* parseEncryptedFile on a buffer that no build produced
CodecParseForeign ==
  /\ cdPhase = "idle"
  /\ \E buffer \in ForeignBuffers :
       /\ cdBytes' = buffer
       /\ cdParsed' = parseEncryptedFile(buffer)
  /\ cdPhase' = "parsed"
  /\ UNCHANGED cdInput
  /\ UNCHANGED notCodec

(***************************************************************************)
(* LSBEncoder (src/src/steganography/lsb-encoder.js).                      *)
(* An image is [w, h, px]: px is the canvas ImageData.data buffer, 4       *)
(* samples (R, G, B, A) per pixel in raster order.                         *)
(***************************************************************************)
NoImage == [w |-> 0, h |-> 0, px |-> <<>>]

ErrTooLarge == "File is too large for this cover image."
ErrNoHidden == "No valid hidden data found or file corrupted."

\* Math.floor(((totalPixels * 3) - 32) / 8)
getMaxCapacity(image) ==
  LET totalPixels == image.w * image.h
  IN ((totalPixels * 3) - 32) \div 8

\* hasCapacity with the header bits not reserved
hasCapacity_NoHeader(image, dataSizeInBytes) ==
  dataSizeInBytes <= (image.w * image.h * 3) \div 8

hasCapacity(image, dataSizeInBytes) ==
  LET totalPixels == image.w * image.h
      maxBytes == ((totalPixels * 3) - 32) \div 8
  IN dataSizeInBytes <= maxBytes

\* the sample replaced by the bit, its upper bits lost
SetLSB_Replace(v, bit) == bit

\* (v & ~1) | bit
SetLSB(v, bit) == (v - (v % 2)) + bit

\* HideChannel taking the bits of a byte least significant first
HideChannel_LsbFirst(s, fullData, i, j) ==
  IF s.dataIndex >= Len(fullData) THEN s
  ELSE LET byte == fullData[s.dataIndex + 1]
           bit == (byte \div Pow2(s.bitIndex)) % 2
           written == [s.px EXCEPT ![i + j + 1] = SetLSB(s.px[i + j + 1], bit)]
       IN IF s.bitIndex + 1 = 8
          THEN [px |-> written, dataIndex |-> s.dataIndex + 1, bitIndex |-> 0]
          ELSE [px |-> written, dataIndex |-> s.dataIndex, bitIndex |-> s.bitIndex + 1]

\* One pass of the channel loop body of hide (for j = 0, 1, 2), on the
\* loop state s = [px, dataIndex, bitIndex]; "break" leaves s as it is.
HideChannel(s, fullData, i, j) ==
  IF s.dataIndex >= Len(fullData) THEN s
  ELSE LET byte == fullData[s.dataIndex + 1]
           bit == (byte \div Pow2(7 - s.bitIndex)) % 2
           written == [s.px EXCEPT ![i + j + 1] = SetLSB(s.px[i + j + 1], bit)]
       IN IF s.bitIndex + 1 = 8
          THEN [px |-> written, dataIndex |-> s.dataIndex + 1, bitIndex |-> 0]
          ELSE [px |-> written, dataIndex |-> s.dataIndex, bitIndex |-> s.bitIndex + 1]

\* The passes of the pixel loop of hide for the pixels first..last, one
\* after the other, on the loop state s
RECURSIVE HideRange(_, _, _, _)
HideRange(s, fullData, first, last) ==
  IF first > last THEN s
  ELSE IF first = last
  THEN HideChannel(HideChannel(HideChannel(s, fullData, 4 * first, 0), fullData, 4 * first, 1),
                   fullData, 4 * first, 2)
  ELSE The({HideRange(t, fullData, ((first + last) \div 2) + 1, last) :
              t \in {HideRange(s, fullData, first, (first + last) \div 2)}})

\* The pixel loop of hide: for (i = 0; i < pixels.length; i += 4), left
\* (break) at the first pixel where dataIndex >= fullData.length, which is
\* the first pixel p with 3 * p >= 8 * fullData.length
HideLoop(s, fullData, i) ==
  HideRange(s, fullData, i \div 4,
            Min((Len(s.px) \div 4) - 1, ((8 * Len(fullData)) - 1) \div 3)).px

\* the pixels after the loop has written fullData into them
HidePixels(pixels, fullData) ==
  HideLoop([px |-> pixels, dataIndex |-> 0, bitIndex |-> 0], fullData, 0)

\* fullData: 4 bytes length header + secret data
FullData(secretData) == U32BE(Len(secretData)) \o secretData

\* LSBEncoder.hide: the capacity check, then the pixel loop
hide(image, secretData) ==
  IF ~hasCapacity(image, Len(secretData))
  THEN [ok |-> FALSE, error |-> ErrTooLarge, image |-> NoImage]
  ELSE [ok |-> TRUE, error |-> "",
        image |-> [image EXCEPT !.px = HidePixels(image.px, FullData(secretData))]]

\* The channel loop body of the first loop of reveal, on the loop state
\* s = [headerBytes, byteIndex, bitIndex, currentByte].
HeaderChannel(s, pixels, pixelIndex, j) ==
  IF s.byteIndex >= 4 THEN s
  ELSE LET bit == pixels[pixelIndex + j + 1] % 2
           cur == s.currentByte * 2 + bit
       IN IF s.bitIndex + 1 = 8
          THEN [headerBytes |-> [s.headerBytes EXCEPT ![s.byteIndex + 1] = cur],
                byteIndex |-> s.byteIndex + 1, bitIndex |-> 0, currentByte |-> 0]
          ELSE [s EXCEPT !.bitIndex = s.bitIndex + 1, !.currentByte = cur]

\* The first loop of reveal: while (byteIndex < 4 && pixelIndex < pixels.length)
RECURSIVE HeaderLoop(_, _, _)
HeaderLoop(s, pixels, pixelIndex) ==
  IF ~(s.byteIndex < 4 /\ pixelIndex < Len(pixels)) THEN s.headerBytes
  ELSE HeaderLoop(HeaderChannel(HeaderChannel(HeaderChannel(s, pixels, pixelIndex, 0),
                                              pixels, pixelIndex, 1),
                                pixels, pixelIndex, 2),
                  pixels, pixelIndex + 4)

\* the length the first 32 header bits declare
HeaderLength(pixels) ==
  GetU32BE(HeaderLoop([headerBytes |-> <<0, 0, 0, 0>>, byteIndex |-> 0, bitIndex |-> 0,
                       currentByte |-> 0], pixels, 0))

\* RevealChannel realigning to the next pixel after the header (33 bits)
RevealChannel_Realigned(s, pixels, dataLength, i, j) ==
  LET bit == pixels[i + j + 1] % 2
  IN IF s.readingHeader
     THEN [s EXCEPT !.headerBitsRead = s.headerBitsRead + 1,
                    !.readingHeader = (s.headerBitsRead + 1 # 33)]
     ELSE IF s.outputIndex >= dataLength THEN s
     ELSE LET cur == s.currentByte * 2 + bit
          IN IF s.bitIndex + 1 = 8
             THEN [s EXCEPT !.outputBuffer = [s.outputBuffer EXCEPT ![s.outputIndex + 1] = cur],
                            !.outputIndex = s.outputIndex + 1,
                            !.bitIndex = 0, !.currentByte = 0]
             ELSE [s EXCEPT !.bitIndex = s.bitIndex + 1, !.currentByte = cur]

\* The channel loop body of the single-pass loop of reveal, on the loop
\* state s = [readingHeader, headerBitsRead, outputBuffer, outputIndex,
\* bitIndex, currentByte]: skips 32 header bits, then fills outputBuffer.
RevealChannel(s, pixels, dataLength, i, j) ==
  LET bit == pixels[i + j + 1] % 2
  IN IF s.readingHeader
     THEN [s EXCEPT !.headerBitsRead = s.headerBitsRead + 1,
                    !.readingHeader = (s.headerBitsRead + 1 # 32)]
     ELSE IF s.outputIndex >= dataLength THEN s
     ELSE LET cur == s.currentByte * 2 + bit
          IN IF s.bitIndex + 1 = 8
             THEN [s EXCEPT !.outputBuffer = [s.outputBuffer EXCEPT ![s.outputIndex + 1] = cur],
                            !.outputIndex = s.outputIndex + 1,
                            !.bitIndex = 0, !.currentByte = 0]
             ELSE [s EXCEPT !.bitIndex = s.bitIndex + 1, !.currentByte = cur]

\* The passes of the single-pass loop of reveal for the pixels
\* first..last, one after the other, on the loop state s
RECURSIVE RevealRange(_, _, _, _, _)
RevealRange(s, pixels, dataLength, first, last) ==
  IF first > last THEN s
  ELSE IF first = last
  THEN RevealChannel(RevealChannel(RevealChannel(s, pixels, dataLength, 4 * first, 0),
                                   pixels, dataLength, 4 * first, 1),
                     pixels, dataLength, 4 * first, 2)
  ELSE The({RevealRange(t, pixels, dataLength, ((first + last) \div 2) + 1, last) :
              t \in {RevealRange(s, pixels, dataLength, first, (first + last) \div 2)}})

\* The single-pass loop of reveal: for (i = 0; i < pixels.length; i += 4),
\* left when the header is read and outputBuffer is full, which is after
\* the pixel that holds bit 32 + 8 * dataLength - 1
RevealLoop(s, pixels, dataLength, i) ==
  RevealRange(s, pixels, dataLength, i \div 4,
              Min((Len(pixels) \div 4) - 1, (32 + (8 * dataLength) - 1) \div 3)).outputBuffer

\* the outputBuffer reveal returns for a declared length that passed the check
RevealData(pixels, dataLength) ==
  RevealLoop([readingHeader |-> TRUE, headerBitsRead |-> 0,
              outputBuffer |-> [k \in 1..dataLength |-> 0], outputIndex |-> 0,
              bitIndex |-> 0, currentByte |-> 0], pixels, dataLength, 0)

\* the sanity check of reveal: dataLength <= 0 || dataLength > pixels.length * 3 / 8
\* (dataLength is an integer, so the comparison with the quotient is the
\* comparison with its floor)
RevealRejects(pixels, dataLength) ==
  dataLength <= 0 \/ dataLength > (Len(pixels) * 3) \div 8

\* LSBEncoder.reveal
reveal(image) ==
  LET dataLength == HeaderLength(image.px)
  IN IF RevealRejects(image.px, dataLength)
     THEN [ok |-> FALSE, error |-> ErrNoHidden, data |-> <<>>]
     ELSE [ok |-> TRUE, error |-> "",
           data |-> RevealData(image.px, dataLength)]

(***************************************************************************)
(* The images and payloads the stego operations are run on.                *)
(***************************************************************************)
\* width and height of the images
Dims == {<<1, 1>>, <<2, 5>>, <<3, 4>>, <<2, 7>>, <<4, 4>>}

Seeds == {0, 201}

\* sample idx (0-based) of a patterned image: alpha is 255 or 128
PatternSample(seed, idx) ==
  IF idx % 4 = 3 THEN (IF seed = 0 THEN 255 ELSE 128)
  ELSE (seed + 37 * idx) % 256

PatternImage(d, seed) ==
  [w |-> d[1], h |-> d[2], px |-> [k \in 1..(4 * d[1] * d[2]) |-> PatternSample(seed, k - 1)]]

\* a patterned image whose first 32 colour-channel LSBs spell the length L
DeclaredImage(d, seed, L) ==
  LET img == PatternImage(d, seed)
  IN [img EXCEPT !.px = HidePixels(img.px, U32BE(L))]

Covers == {PatternImage(d, s) : d \in Dims, s \in Seeds}

ForeignImages == {DeclaredImage(d, 201, L) : d \in Dims, L \in 0..MaxDeclared}

SecretBytes == {0, 165}

Secrets == SeqsUpTo(SecretBytes, MaxPayloadLen)

(***************************************************************************)
(* Stego operations as steps.                                              *)
(***************************************************************************)
StegoInit ==
  /\ stPhase = "idle"
  /\ stCover = NoImage
  /\ stSecret = <<>>
  /\ stImage = NoImage
  /\ stRevealIn = NoImage
  /\ stRevealOut = <<>>
  /\ stError = ""

\* LSBEncoder.hide(coverImageFile, secretData)
StegoHide ==
  /\ stPhase = "idle"
  /\ \E cover \in Covers, secretData \in Secrets :
       LET r == hide(cover, secretData)
       IN /\ stCover' = cover
          /\ stSecret' = secretData
          /\ stPhase' = IF r.ok THEN "hidden" ELSE "hideFailed"
          /\ stImage' = r.image
          /\ stError' = r.error
  /\ UNCHANGED <<stRevealIn, stRevealOut>>
  /\ UNCHANGED notStego

\* the result of LSBEncoder.reveal(file) stored
RevealInto(file) ==
  LET r == reveal(file)
  IN /\ stRevealIn' = file
     /\ stPhase' = IF r.ok THEN "revealed" ELSE "revealFailed"
     /\ stRevealOut' = r.data
     /\ stError' = r.error

\* LSBEncoder.reveal on the image hide produced
StegoReveal ==
  /\ stPhase = "hidden"
  /\ RevealInto(stImage)
  /\ UNCHANGED <<stCover, stSecret, stImage>>
  /\ UNCHANGED notStego

\* LSBEncoder.reveal on an image that hide did not produce
StegoRevealForeign ==
  /\ stPhase = "idle"
  /\ \E file \in ForeignImages : RevealInto(file)
  /\ UNCHANGED <<stCover, stSecret, stImage>>
  /\ UNCHANGED notStego

(***************************************************************************)
(* KeyManager (src/unnamed/part_004) and the Web Crypto primitives it and  *)
(* Encryptor/Decryptor call.  PBKDF2 and AES-GCM are ideal: a derived key  *)
(* is determined by exactly its password and salt, and AES-GCM opens only  *)
(* what it sealed under the same key and iv (the set sealed).              *)
(***************************************************************************)
\* a CryptoKey: derived from a password (material its UTF-8 bytes) and a
\* salt, or raw (material the key bytes, salt empty)
NoKey == [derived |-> FALSE, extractable |-> FALSE, material |-> <<>>, salt |-> <<>>]

\* crypto.getRandomValues(new Uint8Array(16))
generateSalt == {Filled(16, 7)}

\* crypto.getRandomValues(new Uint8Array(12))
generateIV == {Filled(12, 3), Filled(12, 90)}

\* KeyManager.deriveKey ignoring the password
deriveKey_SaltOnly(password, salt) ==
  [derived |-> TRUE, extractable |-> FALSE, material |-> <<>>, salt |-> salt]

\* KeyManager.deriveKey: PBKDF2 over the encoded password and the salt
deriveKey(password, salt) ==
  [derived |-> TRUE, extractable |-> FALSE, material |-> Utf8Encode(password), salt |-> salt]

\* KeyManager.generateRandomKey: the keys crypto.subtle.generateKey may return
generateRandomKey ==
  {[derived |-> FALSE, extractable |-> TRUE, material |-> Filled(32, seed), salt |-> <<>>] :
     seed \in {11}}

\* KeyManager.exportKey returning the first 128 bits of the key
exportKey_Truncated(key) == SubSeq(key.material, 1, 16)

\* KeyManager.exportKey
exportKey(key) == key.material

\* KeyManager.importKey
importKey(keyData) ==
  [derived |-> FALSE, extractable |-> TRUE, material |-> keyData, salt |-> <<>>]

\* bitwise exclusive or of two bytes
XorByte(a, b) ==
  LET X[k \in 0..8] ==
        IF k = 8 THEN 0
        ELSE ((((a \div Pow2(k)) + (b \div Pow2(k))) % 2) * Pow2(k)) + X[k + 1]
  IN X[0]

\* byte i of the key stream of a key and an iv
KeyStreamByte(key, iv, i) ==
  LET m == key.material
      k == IF m = <<>> THEN 0 ELSE m[1] * 7 + m[Len(m)] + Len(m) * 3
      s == IF key.salt = <<>> THEN 0 ELSE key.salt[1]
  IN (k + s + iv[1] * 5 + iv[Len(iv)] + 13 * i) % 256

\* the data combined with the key stream
KeyStreamXor(data, key, iv) ==
  [i \in 1..Len(data) |-> XorByte(data[i], KeyStreamByte(key, iv, i))]

\* the authentication tag of a ciphertext
Tag(ciphertext, key, iv) ==
  LET c == IF ciphertext = <<>> THEN 0 ELSE ciphertext[1] + 3 * ciphertext[Len(ciphertext)]
  IN [j \in 1..TagLength |-> (KeyStreamByte(key, iv, 0) + c + 11 * Len(ciphertext) + 17 * j) % 256]

\* crypto.subtle.encrypt, AES-GCM: the ciphertext, then the tag
Seal(data, key, iv) ==
  The({ciphertext \o Tag(ciphertext, key, iv) : ciphertext \in {KeyStreamXor(data, key, iv)}})

\* Encryptor.encryptChunk
encryptChunk(data, key, iv) == Seal(data, key, iv)

\* Encryptor.prepareKey exporting the derived key as well
Encryptor_prepareKey_Exporting(password, salt) ==
  IF password # <<>>
  THEN {[key |-> deriveKey(password, salt), keyData |-> deriveKey(password, salt).material]}
  ELSE {[key |-> key, keyData |-> exportKey(key)] : key \in generateRandomKey}

\* Encryptor.prepareKey: the results it may return; keyData <<>> for null
Encryptor_prepareKey(password, salt) ==
  IF password # <<>>
  THEN {[key |-> deriveKey(password, salt), keyData |-> <<>>]}
  ELSE {[key |-> key, keyData |-> exportKey(key)] : key \in generateRandomKey}

ErrDecryption == "Decryption failed. Invalid password or corrupted file."
ErrPasswordRequired == "Password required for this file"
ErrMissingKey == "Invalid file format: missing key data"

\* Decryptor.decryptChunk without the verification of the tag
decryptChunk_Unverified(encryptedData, key, iv, issued) ==
  IF Len(encryptedData) >= TagLength
  THEN [ok |-> TRUE, error |-> "",
        data |-> KeyStreamXor(SubSeq(encryptedData, 1, Len(encryptedData) - TagLength), key, iv)]
  ELSE [ok |-> FALSE, error |-> ErrDecryption, data |-> <<>>]

\* Decryptor.decryptChunk telling a wrong key from corrupted data
decryptChunk_Distinguishing(encryptedData, key, iv, issued) ==
  IF Len(encryptedData) >= TagLength /\ <<key, iv, encryptedData>> \in issued
  THEN [ok |-> TRUE, error |-> "",
        data |-> KeyStreamXor(SubSeq(encryptedData, 1, Len(encryptedData) - TagLength), key, iv)]
  ELSE IF \E entry \in issued : entry[2] = iv /\ entry[3] = encryptedData
  THEN [ok |-> FALSE, error |-> "Decryption failed. Invalid password.", data |-> <<>>]
  ELSE [ok |-> FALSE, error |-> "Decryption failed. Corrupted file.", data |-> <<>>]

\* Decryptor.decryptChunk: crypto.subtle.decrypt rejects what was not
\* sealed under this key and iv (issued: what has been sealed), and every
\* rejection is rethrown with the one message
decryptChunk(encryptedData, key, iv, issued) ==
  IF Len(encryptedData) >= TagLength /\ <<key, iv, encryptedData>> \in issued
  THEN [ok |-> TRUE, error |-> "",
        data |-> KeyStreamXor(SubSeq(encryptedData, 1, Len(encryptedData) - TagLength), key, iv)]
  ELSE [ok |-> FALSE, error |-> ErrDecryption, data |-> <<>>]

ErrKeyLength == "Invalid key length"

\* crypto.subtle.importKey accepts raw AES key data of 128, 192 or 256 bits
Importable(keyData) == Len(keyData) \in {16, 24, 32}

\* Decryptor.prepareKey deriving a key from an empty password too
Decryptor_prepareKey_Unchecked(metadata, password, salt) ==
  IF Truthy(Prop(metadata, K_hasPassword))
  THEN [ok |-> TRUE, error |-> "", key |-> deriveKey(password, salt)]
  ELSE IF ~Truthy(Prop(metadata, K_key))
  THEN [ok |-> FALSE, error |-> ErrMissingKey, key |-> NoKey]
  ELSE [ok |-> TRUE, error |-> "", key |-> importKey(Prop(metadata, K_key).s)]

\* Decryptor.prepareKey; password <<>> for null.  The rejection of
\* importKey (key data of another length) passes through.
Decryptor_prepareKey(metadata, password, salt) ==
  IF Truthy(Prop(metadata, K_hasPassword))
  THEN (IF password = <<>> THEN [ok |-> FALSE, error |-> ErrPasswordRequired, key |-> NoKey]
        ELSE [ok |-> TRUE, error |-> "", key |-> deriveKey(password, salt)])
  ELSE IF ~Truthy(Prop(metadata, K_key))
  THEN [ok |-> FALSE, error |-> ErrMissingKey, key |-> NoKey]
  ELSE IF ~Importable(Prop(metadata, K_key).s)
  THEN [ok |-> FALSE, error |-> ErrKeyLength, key |-> NoKey]
  ELSE [ok |-> TRUE, error |-> "", key |-> importKey(Prop(metadata, K_key).s)]

(***************************************************************************)
(* ChunkedFileReader, FileValidator and Downloader.                        *)
(***************************************************************************)
\* a File or a Blob with a name; present is FALSE for null
NoFile == [present |-> FALSE, name |-> <<>>, type |-> <<>>, data |-> <<>>]

File(name, type, data) == [present |-> TRUE, name |-> name, type |-> type, data |-> data]

\* '.enc'
DotEnc == <<46, 101, 110, 99>>

\* 'application/octet-stream'
OctetStream ==
  <<97, 112, 112, 108, 105, 99, 97, 116, 105, 111, 110, 47,
    111, 99, 116, 101, 116, 45, 115, 116, 114, 101, 97, 109>>

ErrNoFileSelected == "No file selected"
ErrNotEncrypted == "Selected file is not an encrypted file (.enc)"

\* FileValidator.validateForEncryption; the limit of 2 GiB is above every
\* file of the model
validateForEncryption(file) ==
  IF ~file.present THEN [valid |-> FALSE, error |-> ErrNoFileSelected]
  ELSE [valid |-> TRUE, error |-> ""]

\* String.prototype.endsWith
EndsWith(str, suffix) ==
  Len(str) >= Len(suffix) /\ SubSeq(str, Len(str) - Len(suffix) + 1, Len(str)) = suffix

\* FileValidator.validateForDecryption
validateForDecryption(file) ==
  IF ~file.present THEN [valid |-> FALSE, error |-> ErrNoFileSelected]
  ELSE IF ~EndsWith(file.name, DotEnc) THEN [valid |-> FALSE, error |-> ErrNotEncrypted]
  ELSE [valid |-> TRUE, error |-> ""]

\* Downloader.getEncryptedFilename
getEncryptedFilename(originalFilename) == originalFilename \o DotEnc

\* Downloader.getDecryptedFilename
getDecryptedFilename(encryptedFilename, originalFilename) ==
  IF originalFilename # <<>> THEN originalFilename
  ELSE IF EndsWith(encryptedFilename, DotEnc)
  THEN SubSeq(encryptedFilename, 1, Len(encryptedFilename) - Len(DotEnc))
  ELSE encryptedFilename

\* ChunkedFileReader.getTotalChunks: Math.ceil(file.size / CHUNK_SIZE)
getTotalChunks(file) == (Len(file.data) + CHUNK_SIZE - 1) \div CHUNK_SIZE

\* readChunks taking all that is left as one chunk
ChunkEnd_Whole(file, offset) == Len(file.data)

\* the end of the chunk that readChunks reads at offset
ChunkEnd(file, offset) == Min(offset + CHUNK_SIZE, Len(file.data))

\* the progress readChunks reports at offset:
\* Math.round((offset / file.size) * 100)
ChunkProgress(file, offset) == ((200 * offset) + Len(file.data)) \div (2 * Len(file.data))

(***************************************************************************)
(* The encryption page (src/unnamed/part_001).                             *)
(***************************************************************************)
\* the locals of handleEncryption; file, offset and chunkIndex are the
\* reader's, yielded the items readChunks has yielded so far, downloads
\* the number of calls of Downloader.download in this run
NoRun ==
  [usePassword |-> FALSE, password |-> <<>>, salt |-> <<>>, iv |-> <<>>, key |-> NoKey,
   keyData |-> <<>>, file |-> NoFile, offset |-> 0, chunkIndex |-> 0, yielded |-> <<>>,
   chunk |-> <<>>, encryptedChunks |-> <<>>, downloads |-> 0]

\* 'Image/X-Png': a type in mixed case
MixedCaseType == <<73, 109, 97, 103, 101, 47, 88, 45, 80, 110, 103>>

\* the files the user has: every size up to MaxFileSize, one file whose
\* type the browser does not know, and one of a single chunk whose name
\* is not ASCII and whose type is in mixed case
PlainFiles ==
  {File(<<97, 46, 98>>, <<116, 101, 120, 116, 47, 112, 108, 97, 105, 110>>, Filled(n, 40)) :
     n \in 0..MaxFileSize}
  \cup {File(<<233, 34>>, <<>>, Filled(CHUNK_SIZE, 200))}
  \cup {File(<<252, 92, 46, 80>>, MixedCaseType, Filled(1, 77))}

\* what the user types as a password
Passwords == {<<112>>, <<113, 233>>}

\* the values of Date.now(); the milliseconds since 1970 are scaled down
Timestamps == {1730}

AppInit ==
  /\ encryptFile = NoFile
  /\ encPc = "idle"
  /\ encRun = NoRun
  /\ encryptStatus = ""
  /\ downloaded = NoFile
  /\ sealed = {}
  /\ nonceLog = <<>>
  /\ decryptFile = NoFile
  /\ tampered = FALSE
  /\ decPc = "idle"
  /\ decryptPassword = <<>>
  /\ decrypted = NoFile
  /\ decryptStatus = ""
  /\ encryptBtnDisabled = TRUE
  /\ resetScheduled = FALSE

decVars == <<decryptFile, tampered, decPc, decryptPassword, decrypted, decryptStatus>>

\* handleEncryptFileSelect
AcceptForEncryption ==
  /\ \E file \in PlainFiles :
       IF validateForEncryption(file).valid
       THEN /\ encryptFile' = file
            /\ encryptBtnDisabled' = FALSE
            /\ encryptStatus' = "File ready for encryption"
       ELSE /\ encryptStatus' = validateForEncryption(file).error
            /\ UNCHANGED <<encryptFile, encryptBtnDisabled>>
  /\ UNCHANGED <<encPc, encRun, downloaded, sealed, nonceLog, resetScheduled>>
  /\ UNCHANGED decVars
  /\ UNCHANGED notEncPage

\* handleEncryptFileSelect, while no encryption runs
EncryptFileSelect == encPc = "idle" /\ AcceptForEncryption

\* handleEncryptFileSelect for a file dropped while handleEncryption is
\* suspended at an await, or after it has ended
EncryptFileDrop == encPc # "idle" /\ AcceptForEncryption

\* handleEncryption up to its first await: the checkbox and the password
\* field read, salt and iv generated
EncryptClick ==
  /\ encPc = "idle"
  /\ ~encryptBtnDisabled
  /\ encryptFile.present
  /\ \E usePassword \in BOOLEAN, field \in Passwords \cup {<<>>} :
       LET password == IF usePassword THEN field ELSE <<>>
       IN IF usePassword /\ password = <<>>
          THEN /\ encryptStatus' = "Please enter a password"
               /\ UNCHANGED <<encPc, encRun, nonceLog, encryptBtnDisabled>>
          ELSE \E salt \in generateSalt, iv \in generateIV :
                 /\ encRun' = [NoRun EXCEPT !.usePassword = usePassword,
                                            !.password = password, !.salt = salt, !.iv = iv]
                 /\ encPc' = "prepareKey"
                 /\ encryptBtnDisabled' = TRUE
                 /\ nonceLog' = <<>>
                 /\ encryptStatus' = "Encrypting..."
  /\ UNCHANGED <<encryptFile, downloaded, sealed, resetScheduled>>
  /\ UNCHANGED decVars
  /\ UNCHANGED notEncPage

\* Encryptor.prepareKey resolved; the reader created over encryptFile
EncPrepareKey ==
  /\ encPc = "prepareKey"
  /\ \E prepared \in Encryptor_prepareKey(encRun.password, encRun.salt) :
       encRun' = [encRun EXCEPT !.key = prepared.key, !.keyData = prepared.keyData,
                                !.file = encryptFile, !.offset = 0]
  /\ encPc' = "read"
  /\ UNCHANGED <<encryptFile, encryptStatus, downloaded, sealed, nonceLog>>
  /\ UNCHANGED decVars
  /\ UNCHANGED notApp

\* readChunks yields the chunk at offset
EncReadChunk ==
  /\ encPc = "read"
  /\ encRun.offset < Len(encRun.file.data)
  /\ \E data \in {Slice(encRun.file.data, encRun.offset, ChunkEnd(encRun.file, encRun.offset))} :
       encRun' = [encRun EXCEPT
                    !.chunk = data,
                    !.yielded = Append(encRun.yielded,
                                       [data |-> data, index |-> encRun.chunkIndex,
                                        progress |-> ChunkProgress(encRun.file, encRun.offset)])]
  /\ encPc' = "encrypt"
  /\ UNCHANGED <<encryptFile, encryptStatus, downloaded, sealed, nonceLog>>
  /\ UNCHANGED decVars
  /\ UNCHANGED notApp

\* the body of the loop: encryptChunk(chunk.data, key, iv), the result
\* pushed; then the reader moves its offset
EncEncryptChunk ==
  /\ encPc = "encrypt"
  /\ LET encrypted == encryptChunk(encRun.chunk, encRun.key, encRun.iv)
     IN /\ encRun' = [encRun EXCEPT
                        !.encryptedChunks = Append(encRun.encryptedChunks, encrypted),
                        !.offset = ChunkEnd(encRun.file, encRun.offset),
                        !.chunkIndex = encRun.chunkIndex + 1]
        /\ sealed' = sealed \cup {<<encRun.key, encRun.iv, encrypted>>}
  /\ nonceLog' = Append(nonceLog, encRun.iv)
  /\ encPc' = "read"
  /\ UNCHANGED <<encryptFile, encryptStatus, downloaded>>
  /\ UNCHANGED decVars
  /\ UNCHANGED notApp

\* the container of a run: createMetadata, serializeMetadata,
\* buildEncryptedFile over the chunks encrypted so far
RunContainer(run, file, now) ==
  buildEncryptedFile(run.salt, run.iv, run.encryptedChunks,
                     serializeMetadata(
                       createMetadata(file.name,
                                      IF file.type # <<>> THEN file.type ELSE OctetStream,
                                      run.usePassword, Len(run.encryptedChunks),
                                      run.keyData, now)))

\* the reader is exhausted: createMetadata, serializeMetadata,
\* buildEncryptedFile, Downloader.download
EncFinish ==
  /\ encPc = "read"
  /\ encRun.offset >= Len(encRun.file.data)
  /\ \E now \in Timestamps :
       downloaded' = File(getEncryptedFilename(encryptFile.name), OctetStream,
                          RunContainer(encRun, encryptFile, now))
  /\ encRun' = [encRun EXCEPT !.downloads = encRun.downloads + 1]
  /\ encPc' = "done"
  /\ encryptStatus' = "File encrypted successfully!"
  /\ resetScheduled' = TRUE
  /\ UNCHANGED <<encryptFile, sealed, nonceLog, encryptBtnDisabled>>
  /\ UNCHANGED decVars
  /\ UNCHANGED notEncPage

\* the catch of handleEncryption downloading what the run has so far
EncFail_Downloading ==
  /\ encPc \in {"prepareKey", "encrypt"} \/ (encPc = "read" /\ encRun.offset < Len(encRun.file.data))
  /\ encPc' = "failed"
  /\ encryptStatus' = "Encryption failed"
  /\ \E now \in Timestamps :
       downloaded' = File(getEncryptedFilename(encryptFile.name), OctetStream,
                          RunContainer(encRun, encryptFile, now))
  /\ encRun' = [encRun EXCEPT !.downloads = encRun.downloads + 1]
  /\ UNCHANGED <<encryptFile, sealed, nonceLog>>
  /\ UNCHANGED decVars
  /\ UNCHANGED notApp

\* an awaited step of the run rejects (Encryptor.prepareKey, the read of a
\* chunk, Encryptor.encryptChunk): the catch of handleEncryption shows the
\* error and enables the button
EncFail ==
  /\ encPc \in {"prepareKey", "encrypt"} \/ (encPc = "read" /\ encRun.offset < Len(encRun.file.data))
  /\ encPc' = "failed"
  /\ encryptStatus' = "Encryption failed"
  /\ encryptBtnDisabled' = FALSE
  /\ UNCHANGED <<encryptFile, encRun, downloaded, sealed, nonceLog, resetScheduled>>
  /\ UNCHANGED decVars
  /\ UNCHANGED notEncPage

\* the callback of the setTimeout of handleEncryption: resetEncryptionForm
EncResetTimer ==
  /\ resetScheduled
  /\ resetScheduled' = FALSE
  /\ encryptFile' = NoFile
  /\ encryptBtnDisabled' = TRUE
  /\ UNCHANGED <<encPc, encRun, encryptStatus, downloaded, sealed, nonceLog>>
  /\ UNCHANGED decVars
  /\ UNCHANGED notEncPage

(***************************************************************************)
(* The decryption page (src/unnamed/part_001).                             *)
(***************************************************************************)
encVars == <<encryptFile, encPc, encRun, encryptStatus, downloaded, sealed, nonceLog>>

\* the offsets (0-based) of the ciphertext region of a container: from 28
\* up to the start of the metadata
CiphertextRegion(bytes) ==
  28..(Len(bytes) - 4 - GetU32LE(Slice(bytes, Len(bytes) - 4, Len(bytes))) - 1)

\* the bytes with bit number bit of the byte at offset inverted
FlipBit(bytes, offset, bit) ==
  [bytes EXCEPT ![offset + 1] =
     IF (@ \div Pow2(bit)) % 2 = 1 THEN @ - Pow2(bit) ELSE @ + Pow2(bit)]

\* the copies of a downloaded container that differ from it in one bit of
\* the ciphertext region
Flipped(file) ==
  {[file EXCEPT !.data = FlipBit(file.data, offset, bit)] :
     offset \in CiphertextRegion(file.data), bit \in 0..7}

\* handleDecryptFileSelect of the file
SelectForDecryption(file) ==
  LET validation == validateForDecryption(file)
  IN IF ~validation.valid
     THEN /\ decryptStatus' = validation.error
          /\ UNCHANGED <<decryptFile, decPc>>
     ELSE \E parsed \in {parseEncryptedFile(file.data)} :
            IF parsed.ok
            THEN /\ decryptFile' = file
                 /\ decPc' = "ready"
                 /\ decryptStatus' =
                      IF Truthy(Prop(parsed.metadata, K_hasPassword))
                      THEN "File ready. Password required."
                      ELSE "File ready for decryption (no password needed)"
            ELSE /\ decryptFile' = NoFile
                 /\ decPc' = "rejected"
                 /\ decryptStatus' = parsed.error

\* handleDecryptFileSelect of the container that was downloaded
DecryptFileSelect ==
  /\ decPc = "idle"
  /\ downloaded.present
  /\ SelectForDecryption(downloaded)
  /\ tampered' = FALSE
  /\ UNCHANGED <<decryptPassword, decrypted>>
  /\ UNCHANGED encVars
  /\ UNCHANGED notApp

\* handleDecryptFileSelect of the downloaded container after one bit of
\* its ciphertext region was flipped
DecryptFileSelectTampered ==
  /\ decPc = "idle"
  /\ downloaded.present
  /\ \E file \in Flipped(downloaded) : SelectForDecryption(file)
  /\ tampered' = TRUE
  /\ UNCHANGED <<decryptPassword, decrypted>>
  /\ UNCHANGED encVars
  /\ UNCHANGED notApp

\* handleDecryption after parseEncryptedFile returned or threw parsed:
\* Decryptor.prepareKey, one decryptChunk over the whole ciphertext region
Decrypt(parsed, password) ==
  LET prepared == Decryptor_prepareKey(parsed.metadata, password, parsed.salt)
      opened == decryptChunk(parsed.encryptedData, prepared.key, parsed.iv, sealed)
  IN IF ~parsed.ok THEN [ok |-> FALSE, error |-> parsed.error, data |-> <<>>]
     ELSE IF ~prepared.ok THEN [ok |-> FALSE, error |-> prepared.error, data |-> <<>>]
     ELSE opened

\* handleDecryption; the button is enabled again after a failure
DecryptClick ==
  /\ decPc \in {"ready", "failed"}
  /\ decryptFile.present
  /\ \E parsed \in {parseEncryptedFile(decryptFile.data)} :
       \E field \in Passwords \cup {<<>>} :
         \E opened \in {Decrypt(parsed, field)} :
           /\ decryptPassword' = field
           /\ IF opened.ok
              THEN /\ decrypted' =
                        File(getDecryptedFilename(decryptFile.name,
                                                  Prop(parsed.metadata, K_filename).s),
                             Prop(parsed.metadata, K_mimeType).s, opened.data)
                   /\ decPc' = "decrypted"
                   /\ decryptStatus' = "Decryption complete!"
              ELSE /\ decPc' = "failed"
                   /\ decryptStatus' = opened.error
                   /\ UNCHANGED decrypted
  /\ UNCHANGED <<decryptFile, tampered>>
  /\ UNCHANGED encVars
  /\ UNCHANGED notApp

AppNext ==
  \/ EncryptFileSelect
  \/ EncryptClick
  \/ EncPrepareKey
  \/ EncReadChunk
  \/ EncEncryptChunk
  \/ EncFinish
  \/ EncFail
  \/ DecryptFileSelect
  \/ DecryptFileSelectTampered
  \/ DecryptClick

(***************************************************************************)
(* Key preparation run on its own: KeyManager.deriveKey,                   *)
(* Encryptor.prepareKey and Decryptor.prepareKey on any arguments.         *)
(***************************************************************************)
NoKeyInput == [metadata |-> JUndefined, password |-> <<>>, salt |-> <<>>]

NoKeyResult == [ok |-> FALSE, error |-> "", key |-> NoKey, keyData |-> <<>>]

\* the values metadata.key may hold: null, a raw key, an array too short
EmbeddedKeys == {JNull, JArr(Filled(32, 11)), JArr(Filled(32, 200)), JArr(<<0, 255>>)}

\* metadata objects as JSON.parse may return them: records with and
\* without the key property, an empty object, a number
KeyMetadata ==
  {createMetadata(name, <<65, 47, 98>>, hasPassword, 1, <<>>, 1730) :
     name \in CodecNames, hasPassword \in BOOLEAN}
  \cup {JObj(<<[k |-> K_filename, v |-> JStr(name)],
               [k |-> K_hasPassword, v |-> JBool(hasPassword)],
               [k |-> K_key, v |-> key]>>) :
          name \in CodecNames, hasPassword \in BOOLEAN, key \in EmbeddedKeys}
  \cup {JObj(<<[k |-> K_hasPassword, v |-> JBool(hasPassword)]>>) : hasPassword \in BOOLEAN}
  \cup {JObj(<<>>), JNum(1)}

KeysInit ==
  /\ kmPhase = "idle"
  /\ kmInput = NoKeyInput
  /\ kmResult = NoKeyResult

\* KeyManager.deriveKey(password, salt)
KeysDerive ==
  /\ kmPhase = "idle"
  /\ \E password \in Passwords \cup {<<>>}, salt \in CodecSalts :
       /\ kmInput' = [NoKeyInput EXCEPT !.password = password, !.salt = salt]
       /\ kmResult' = [NoKeyResult EXCEPT !.ok = TRUE, !.key = deriveKey(password, salt)]
  /\ kmPhase' = "derived"
  /\ UNCHANGED notKeys

\* Encryptor.prepareKey(password, salt)
KeysEncryptorPrepare ==
  /\ kmPhase = "idle"
  /\ \E password \in Passwords \cup {<<>>}, salt \in CodecSalts :
       /\ kmInput' = [NoKeyInput EXCEPT !.password = password, !.salt = salt]
       /\ \E prepared \in Encryptor_prepareKey(password, salt) :
            kmResult' = [NoKeyResult EXCEPT !.ok = TRUE, !.key = prepared.key,
                                            !.keyData = prepared.keyData]
  /\ kmPhase' = "encryptionKey"
  /\ UNCHANGED notKeys

\* Decryptor.prepareKey(metadata, password, salt)
KeysDecryptorPrepare ==
  /\ kmPhase = "idle"
  /\ \E metadata \in KeyMetadata, password \in Passwords \cup {<<>>}, salt \in CodecSalts :
       /\ kmInput' = [metadata |-> metadata, password |-> password, salt |-> salt]
       /\ \E prepared \in {Decryptor_prepareKey(metadata, password, salt)} :
            kmResult' = [NoKeyResult EXCEPT !.ok = prepared.ok, !.error = prepared.error,
                                            !.key = prepared.key]
  /\ kmPhase' = "decryptionKey"
  /\ UNCHANGED notKeys

KeysNext == KeysDerive \/ KeysEncryptorPrepare \/ KeysDecryptorPrepare

(***************************************************************************)
(* The hide view of the steganography page (src/unnamed/part_001).         *)
(***************************************************************************)
\* an image file: present is FALSE for null
NoCover == [present |-> FALSE, name |-> <<>>, type |-> <<>>, image |-> NoImage]

\* 'image/'
ImageSlash == <<105, 109, 97, 103, 101, 47>>

\* 'image/png'
ImagePng == ImageSlash \o <<112, 110, 103>>

\* 'text/plain'
TextPlain == <<116, 101, 120, 116, 47, 112, 108, 97, 105, 110>>

\* 'secret.txt'
SecretTxt == <<115, 101, 99, 114, 101, 116, 46, 116, 120, 116>>

\* 'stego_'
StegoPrefix == <<115, 116, 101, 103, 111, 95>>

\* '.png'
DotPng == <<46, 112, 110, 103>>

\* the bytes the size estimates add to a secret's size
SecretOverhead == 1024

\* String.prototype.startsWith
StartsWith(str, prefix) == Len(str) >= Len(prefix) /\ SubSeq(str, 1, Len(prefix)) = prefix

\* name.split('.')[0]
BeforeFirstDot(name) == SubSeq(name, 1, Least(1, Len(name), LAMBDA i : name[i] = 46) - 1)

\* the files the user may drop as cover: an image too small for any
\* container, one that holds a small container, one that passes the size
\* estimate of a secret file, and a file that is no image
CoverFiles ==
  {[present |-> TRUE, name |-> <<99, 46, 106>>, type |-> ImagePng,
    image |-> PatternImage(d, 0)] : d \in {<<3, 4>>, <<21, 21>>, <<53, 52>>}}
  \cup {[present |-> TRUE, name |-> <<99>>, type |-> TextPlain, image |-> NoImage]}

\* what the user types as secret text
SecretTexts == {<<>>, <<104>>, <<233, 33>>}

PageInit ==
  /\ stegoCoverFile = NoCover
  /\ stegoSecretFile = NoFile
  /\ stegoMaxBytes = 0
  /\ stegoPc = "idle"
  /\ stegoContainer = <<>>
  /\ stegoDownloaded = NoCover
  /\ stegoHideStatus = ""

\* handleStegoCoverSelect
StegoCoverSelect ==
  /\ stegoPc = "idle"
  /\ \E file \in CoverFiles :
       IF ~StartsWith(file.type, ImageSlash)
       THEN /\ stegoHideStatus' = "Please select a valid image file."
            /\ UNCHANGED <<stegoCoverFile, stegoSecretFile, stegoMaxBytes>>
       ELSE /\ stegoCoverFile' = file
            /\ stegoMaxBytes' = getMaxCapacity(file.image)
            /\ stegoSecretFile' = NoFile
            /\ UNCHANGED stegoHideStatus
  /\ UNCHANGED <<stegoPc, stegoContainer, stegoDownloaded>>
  /\ UNCHANGED sealed
  /\ UNCHANGED notPage

\* handleStegoSecretSelect
StegoSecretSelect ==
  /\ stegoPc = "idle"
  /\ \E file \in PlainFiles :
       IF Len(file.data) + SecretOverhead > stegoMaxBytes
       THEN /\ stegoHideStatus' = "File too large!"
            /\ UNCHANGED stegoSecretFile
       ELSE /\ stegoSecretFile' = file
            /\ stegoHideStatus' = ""
  /\ UNCHANGED <<stegoCoverFile, stegoMaxBytes, stegoPc, stegoContainer, stegoDownloaded>>
  /\ UNCHANGED sealed
  /\ UNCHANGED notPage

\* the click handler of #stego-hide-btn from the password check on:
\* the secret encrypted as one chunk, the container built in memory and
\* hidden in the cover, the image downloaded
HideSecret(dataToEncrypt, filename, mimeType, usePassword, password) ==
  IF usePassword /\ password = <<>>
  THEN /\ stegoHideStatus' = "Please enter a password."
       /\ UNCHANGED <<stegoPc, stegoContainer, stegoDownloaded, sealed>>
  ELSE \E salt \in generateSalt, iv \in generateIV, now \in Timestamps :
       \E prepared \in Encryptor_prepareKey(password, salt) :
       \E encryptedData \in {encryptChunk(dataToEncrypt, prepared.key, iv)} :
       \E encryptedBuffer \in
            {buildEncryptedFile(salt, iv, <<encryptedData>>,
               serializeMetadata(createMetadata(filename, mimeType, usePassword, 1,
                                                prepared.keyData, now)))} :
       \E hidden \in {hide(stegoCoverFile.image, encryptedBuffer)} :
         /\ sealed' = sealed \cup {<<prepared.key, iv, encryptedData>>}
         /\ stegoContainer' = encryptedBuffer
         /\ IF hidden.ok
            THEN /\ stegoDownloaded' =
                      [present |-> TRUE,
                       name |-> StegoPrefix \o BeforeFirstDot(stegoCoverFile.name) \o DotPng,
                       type |-> ImagePng, image |-> hidden.image]
                 /\ stegoPc' = "hidden"
                 /\ stegoHideStatus' = "Success! Image downloaded."
            ELSE /\ stegoPc' = "failed"
                 /\ stegoHideStatus' = hidden.error
                 /\ UNCHANGED stegoDownloaded

\* the click handler of #stego-hide-btn with the secret a file
StegoHideFileClick ==
  /\ stegoPc = "idle"
  /\ stegoCoverFile.present
  /\ stegoSecretFile.present
  /\ \E usePassword \in BOOLEAN, field \in Passwords \cup {<<>>} :
       HideSecret(stegoSecretFile.data, stegoSecretFile.name,
                  IF stegoSecretFile.type # <<>> THEN stegoSecretFile.type ELSE OctetStream,
                  usePassword, IF usePassword THEN field ELSE <<>>)
  /\ UNCHANGED <<stegoCoverFile, stegoSecretFile, stegoMaxBytes>>
  /\ UNCHANGED notPage

\* the click handler of #stego-hide-btn with the secret a text
StegoHideTextClick ==
  /\ stegoPc = "idle"
  /\ stegoCoverFile.present
  /\ \E text \in SecretTexts \ {<<>>}, usePassword \in BOOLEAN, field \in Passwords \cup {<<>>} :
       HideSecret(Utf8Encode(text), SecretTxt, TextPlain,
                  usePassword, IF usePassword THEN field ELSE <<>>)
  /\ UNCHANGED <<stegoCoverFile, stegoSecretFile, stegoMaxBytes>>
  /\ UNCHANGED notPage

PageNext == StegoCoverSelect \/ StegoSecretSelect \/ StegoHideFileClick \/ StegoHideTextClick

(***************************************************************************)
(* BlobBuilder (src/src/file-handling/blob-builder.js).                    *)
(***************************************************************************)
\* the highest index addChunk is called with
MaxChunkIndex == 2

\* the number of addChunk calls on one builder before it is cleared
MaxAdds == 3

\* an array position nothing was assigned to
Hole == [defined |-> FALSE, data |-> <<>>]

\* addChunk pushing the chunk behind the ones that arrived before
addChunk_Push(chunks, chunkData, index) == Append(chunks, [defined |-> TRUE, data |-> chunkData])

\* BlobBuilder.addChunk: this.chunks[index] = new Uint8Array(chunkData);
\* an assignment past the end lengthens the array and leaves holes
addChunk(chunks, chunkData, index) ==
  [i \in 1..(IF index + 1 > Len(chunks) THEN index + 1 ELSE Len(chunks)) |->
     IF i = index + 1 THEN [defined |-> TRUE, data |-> chunkData]
     ELSE IF i <= Len(chunks) THEN chunks[i]
     ELSE Hole]

\* this.chunks.filter(chunk => chunk !== undefined)
RECURSIVE validChunks(_)
validChunks(chunks) ==
  IF Len(chunks) = 0 THEN <<>>
  ELSE IF chunks[Len(chunks)].defined
  THEN Append(validChunks(SubSeq(chunks, 1, Len(chunks) - 1)), chunks[Len(chunks)].data)
  ELSE validChunks(SubSeq(chunks, 1, Len(chunks) - 1))

\* BlobBuilder.build: the Blob of the chunks that are defined
build(chunks, mimeType) ==
  [returned |-> TRUE, type |-> mimeType, data |-> ConcatAll(validChunks(chunks))]

\* BlobBuilder.getChunkCount
getChunkCount(chunks) == Len(validChunks(chunks))

\* no blob built yet
NoBlob == [returned |-> FALSE, type |-> <<>>, data |-> <<>>, chunks |-> <<>>, order |-> <<>>]

\* the chunk data the callers add
BlobChunks == {<<1>>, <<2, 3>>}

\* the constructor
BlobInit ==
  /\ bbChunks = <<>>
  /\ bbOrder = <<>>
  /\ bbBuilt = NoBlob

\* a call of addChunk
BlobAddChunk ==
  /\ Len(bbOrder) < MaxAdds
  /\ \E chunkData \in BlobChunks, index \in 0..MaxChunkIndex :
       /\ bbChunks' = addChunk(bbChunks, chunkData, index)
       /\ bbOrder' = Append(bbOrder, [index |-> index, data |-> chunkData])
  /\ UNCHANGED bbBuilt
  /\ UNCHANGED notBlob

\* a call of build
BlobBuild ==
  /\ \E blob \in {build(bbChunks, TextPlain)} :
       bbBuilt' = [returned |-> blob.returned, type |-> blob.type, data |-> blob.data,
                   chunks |-> bbChunks, order |-> bbOrder]
  /\ UNCHANGED <<bbChunks, bbOrder>>
  /\ UNCHANGED notBlob

\* a call of clear; the caller drops the blob it holds
BlobClear ==
  /\ bbOrder # <<>>
  /\ bbChunks' = <<>>
  /\ bbOrder' = <<>>
  /\ bbBuilt' = NoBlob
  /\ UNCHANGED notBlob

BlobNext == BlobAddChunk \/ BlobBuild \/ BlobClear

(***************************************************************************)
(* The crypto worker (src/unnamed/part_001, workers/crypto-worker.js).     *)
(***************************************************************************)
\* the number of requests the page posts to the worker
MaxTasks == 2

ErrUnknownTask == "Unknown task type"
ErrNotAKey == "key is not of type CryptoKey"

\* the key the page passes along with its chunk requests
WorkerKey == importKey(Filled(32, 11))

WorkerIV == Filled(12, 3)

\* a container the page may ask the worker to parse
WorkerContainer ==
  buildEncryptedFile(Filled(16, 7), WorkerIV, <<Seal(<<1>>, WorkerKey, WorkerIV)>>,
                     serializeMetadata(createMetadata(<<97>>, TextPlain, FALSE, 1,
                                                      exportKey(WorkerKey), 1730)))

\* event.data of a request: type and data, data with the fields the
\* handlers destructure
Request(type, taskId, chunkIndex, payload, key) ==
  [type |-> type, hasData |-> TRUE, taskId |-> taskId, chunkIndex |-> chunkIndex,
   payload |-> payload, key |-> key, iv |-> WorkerIV]

\* event.data of a request that has a type and no data; taskId is then
\* no part of the message and only tells the messages apart
RequestWithoutData(type, taskId) ==
  [type |-> type, hasData |-> FALSE, taskId |-> taskId, chunkIndex |-> 0,
   payload |-> <<>>, key |-> NoKey, iv |-> <<>>]

\* the requests the page may post under the correlation id taskId: chunks
\* to encrypt and to decrypt, with a key and with none, files to parse,
\* a request of a type the worker does not know, and requests without data
WorkerRequests(taskId) ==
  {Request("encrypt-chunk", taskId, chunkIndex, <<1>>, key) :
     chunkIndex \in 0..1, key \in {WorkerKey, NoKey}}
  \cup {Request("decrypt-chunk", taskId, chunkIndex, payload, WorkerKey) :
          chunkIndex \in 0..1, payload \in {Seal(<<1>>, WorkerKey, WorkerIV), <<9>>}}
  \cup {Request("parse-file", taskId, 0, payload, NoKey) : payload \in {WorkerContainer, <<1, 2, 3>>}}
  \cup {Request("compress-chunk", taskId, 0, <<1>>, NoKey)}
  \cup {RequestWithoutData(type, taskId) : type \in {"parse-file", "compress-chunk"}}

\* a message the worker posts; request is the request that caused it
Response(type, hasTaskId, taskId, hasChunkIndex, chunkIndex, payload, error, request) ==
  [type |-> type, hasTaskId |-> hasTaskId, taskId |-> taskId,
   hasChunkIndex |-> hasChunkIndex, chunkIndex |-> chunkIndex, payload |-> payload,
   error |-> error, request |-> request]

\* the catch of self.onmessage: the error posted with data.taskId
CaughtError(request, message) ==
  Response("error", TRUE, request.taskId, FALSE, 0, <<>>, message, request)

\* the default case of self.onmessage: the error posted without a taskId
UnknownTaskError(request) == Response("error", FALSE, 0, FALSE, 0, <<>>, ErrUnknownTask, request)

\* handleEncryptChunk
handleEncryptChunk(request) ==
  IF request.key = NoKey THEN CaughtError(request, ErrNotAKey)
  ELSE Response("chunk-encrypted", TRUE, request.taskId, TRUE, request.chunkIndex,
                encryptChunk(request.payload, request.key, request.iv), "", request)

\* handleDecryptChunk; issued are the ciphertexts sealed so far
handleDecryptChunk(request, issued) ==
  LET plain == decryptChunk(request.payload, request.key, request.iv, issued)
  IN IF plain.ok
     THEN Response("chunk-decrypted", TRUE, request.taskId, TRUE, request.chunkIndex,
                   plain.data, "", request)
     ELSE CaughtError(request, plain.error)

\* handleParseFile
handleParseFile(request) ==
  LET parsed == parseEncryptedFile(request.payload)
  IN IF parsed.ok
     THEN Response("file-parsed", TRUE, request.taskId, FALSE, 0, parsed.encryptedData, "",
                   request)
     ELSE CaughtError(request, parsed.error)

KnownTasks == {"encrypt-chunk", "decrypt-chunk", "parse-file"}

WorkerInit ==
  /\ wkInbox = <<>>
  /\ wkPending = {}
  /\ wkOutbox = <<>>
  /\ wkPosted = 0

\* the page posts a request
WorkerPostMessage ==
  /\ wkPosted < MaxTasks
  /\ \E request \in WorkerRequests(wkPosted + 1) : wkInbox' = Append(wkInbox, request)
  /\ wkPosted' = wkPosted + 1
  /\ UNCHANGED <<wkPending, wkOutbox, sealed>>
  /\ UNCHANGED notWorker

\* self.onmessage up to the await of the handler, or through the default
\* case.  Without data the handler throws at its destructuring and the
\* catch throws at data.taskId: the promise of onmessage rejects and
\* nothing is posted.
WorkerOnMessage ==
  /\ wkInbox # <<>>
  /\ wkInbox' = Tail(wkInbox)
  /\ IF Head(wkInbox).type \notin KnownTasks
     THEN /\ wkOutbox' = Append(wkOutbox, UnknownTaskError(Head(wkInbox)))
          /\ UNCHANGED wkPending
     ELSE IF Head(wkInbox).hasData
     THEN /\ wkPending' = wkPending \cup {Head(wkInbox)}
          /\ UNCHANGED wkOutbox
     ELSE UNCHANGED <<wkPending, wkOutbox>>
  /\ UNCHANGED <<wkPosted, sealed>>
  /\ UNCHANGED notWorker

\* the crypto call of a handler settles: the handler posts its response,
\* or throws and the catch of self.onmessage posts the error
WorkerSettle ==
  /\ \E request \in wkPending :
       /\ wkPending' = wkPending \ {request}
       /\ \E response \in
              {CASE request.type = "encrypt-chunk" -> handleEncryptChunk(request)
                 [] request.type = "decrypt-chunk" -> handleDecryptChunk(request, sealed)
                 [] OTHER -> handleParseFile(request)} :
            /\ wkOutbox' = Append(wkOutbox, response)
            /\ sealed' = IF response.type = "chunk-encrypted"
                         THEN sealed \cup {<<request.key, request.iv, response.payload>>}
                         ELSE sealed
  /\ UNCHANGED <<wkInbox, wkPosted>>
  /\ UNCHANGED notWorker

WorkerNext == WorkerPostMessage \/ WorkerOnMessage \/ WorkerSettle

(***************************************************************************)
(* The progress bar during handleEncryption (src/unnamed/part_001) and     *)
(* ProgressTracker (src/src/steganography/lsb-encoder.js): the run seen    *)
(* through the calls of encryptProgressTracker, for files of many chunks.  *)
(***************************************************************************)
\* the largest file of a run whose progress is followed
MaxProgressSize == 48

\* the value update passes to the bar at 'Building encrypted file...'
BuildingProgress == 95

\* ProgressTracker.update: Math.min(100, Math.max(0, progress))
ClampProgress(progress) == Min(100, IF progress > 0 THEN progress ELSE 0)

notProgress ==
  <<stegoVars, codecVars, appVars, encPageVars, keyVars, pageVars, blobVars, workerVars>>

ProgressInit ==
  /\ pgFile = NoFile
  /\ pgOffset = 0
  /\ pgPc = "idle"
  /\ pgLog = <<>>

\* handleEncryption up to the loop: update(0, 'Preparing encryption...'),
\* the reader created
ProgressStart ==
  /\ pgPc = "idle"
  /\ \E N \in 0..MaxProgressSize : pgFile' = File(<<97>>, <<>>, Filled(N, 0))
  /\ pgOffset' = 0
  /\ pgPc' = "loop"
  /\ pgLog' = <<0>>
  /\ UNCHANGED notProgress

\* one pass of the loop: update(chunk.progress, ...), the reader moves on
ProgressChunk ==
  /\ pgPc = "loop"
  /\ pgOffset < Len(pgFile.data)
  /\ pgLog' = Append(pgLog, ChunkProgress(pgFile, pgOffset))
  /\ pgOffset' = ChunkEnd(pgFile, pgOffset)
  /\ UNCHANGED <<pgFile, pgPc>>
  /\ UNCHANGED notProgress

\* the reader is exhausted: update(95, 'Building encrypted file...')
ProgressBuilding ==
  /\ pgPc = "loop"
  /\ pgOffset >= Len(pgFile.data)
  /\ pgLog' = Append(pgLog, BuildingProgress)
  /\ pgPc' = "built"
  /\ UNCHANGED <<pgFile, pgOffset>>
  /\ UNCHANGED notProgress

\* complete('Encryption complete!'): update(100, message)
ProgressComplete ==
  /\ pgPc = "built"
  /\ pgLog' = Append(pgLog, 100)
  /\ pgPc' = "complete"
  /\ UNCHANGED <<pgFile, pgOffset>>
  /\ UNCHANGED notProgress

ProgressNext == ProgressStart \/ ProgressChunk \/ ProgressBuilding \/ ProgressComplete

(***************************************************************************)
(* Specifications: each component's operations from the common initial     *)
(* state.                                                                  *)
(***************************************************************************)
Init ==
  /\ StegoInit
  /\ CodecInit
  /\ AppInit
  /\ KeysInit
  /\ PageInit
  /\ BlobInit
  /\ WorkerInit
  /\ ProgressInit

StegoNext == StegoHide \/ StegoReveal \/ StegoRevealForeign

SpecStego == Init /\ [][StegoNext]_vars

CodecNext == CodecBuild \/ CodecParse \/ CodecParseForeign

SpecCodec == Init /\ [][CodecNext]_vars

SpecApp == Init /\ [][AppNext]_vars

SpecKeys == Init /\ [][KeysNext]_vars

SpecPage == Init /\ [][PageNext]_vars

\* the encryption page with its events in every order: files selected or
\* dropped at any time, one click, the awaited steps of the run, the timer
EncPageNext ==
  \/ EncryptFileSelect
  \/ EncryptFileDrop
  \/ EncryptClick
  \/ EncPrepareKey
  \/ EncReadChunk
  \/ EncEncryptChunk
  \/ EncFinish
  \/ EncFail
  \/ EncResetTimer

SpecEncPage == Init /\ [][EncPageNext]_vars

SpecProgress == Init /\ [][ProgressNext]_vars

SpecBlob == Init /\ [][BlobNext]_vars

SpecWorker == Init /\ [][WorkerNext]_vars

\* the worker's event loop runs every message and every continuation
SpecWorkerLive ==
  Init /\ [][WorkerNext]_vars /\ WF_vars(WorkerOnMessage) /\ WF_vars(WorkerSettle)

\* the user works in one view at a time (switchTab shows one tab panel):
\* an encryption run while the hide view is untouched, a hide while the
\* encryption page is untouched
PageUntouched == stegoPc = "idle" /\ ~stegoCoverFile.present

EncryptionUntouched == encPc = "idle" /\ ~encryptFile.present

ContainersNext ==
  \/ PageUntouched /\ EncryptFileSelect
  \/ PageUntouched /\ EncryptClick
  \/ PageUntouched /\ EncPrepareKey
  \/ PageUntouched /\ EncReadChunk
  \/ PageUntouched /\ EncEncryptChunk
  \/ PageUntouched /\ EncFinish
  \/ EncryptionUntouched /\ StegoCoverSelect
  \/ EncryptionUntouched /\ StegoSecretSelect
  \/ EncryptionUntouched /\ StegoHideFileClick
  \/ EncryptionUntouched /\ StegoHideTextClick

SpecContainers == Init /\ [][ContainersNext]_vars

(***************************************************************************)
(* Properties of the stego codec (checked under SpecStego).                *)
(***************************************************************************)
\* capacity(W, H) = floor((W * H * 3 - 32) / 8), as the specification states it
Capacity(image) == (image.w * image.h * 3 - 32) \div 8

\* the sample index (1-based) of traversal position k: channel k mod 3 of
\* pixel floor(k / 3), 4 samples per pixel
SampleOf(k) == 4 * (k \div 3) + (k % 3) + 1

\* bit k of the frame of a payload: the 32-bit big-endian length, then the
\* payload bytes, most significant bit first
FrameBit(payload, k) ==
  IF k < 32
  THEN (((Len(payload) \div (256 ^ (3 - (k \div 8)))) % 256) \div Pow2(7 - (k % 8))) % 2
  ELSE (payload[((k - 32) \div 8) + 1] \div Pow2(7 - ((k - 32) % 8))) % 2

\* the length spelled by the least significant bits at traversal positions
\* 0..31 (2^31 - 1 stands for every value with the top bit set)
DeclaredLength(image) ==
  LET bitAt(k) == image.px[SampleOf(k)] % 2
      S[k \in 0..31] == IF k = 0 THEN 0 ELSE 2 * S[k - 1] + bitAt(k)
  IN IF bitAt(0) = 1 THEN 2147483647 ELSE S[31]

\* a reveal of the image the preceding hide produced has run
RevealedAfterHide == stPhase \in {"revealed", "revealFailed"} /\ stCover # NoImage

C6_CapacityBoundary ==
  stPhase \in {"hidden", "hideFailed"} =>
    /\ Len(stSecret) = Capacity(stCover) =>
         /\ stPhase = "hidden"
         /\ 32 + 8 * Len(stSecret) <= 3 * stCover.w * stCover.h
         /\ stImage.px[SampleOf(32 + 8 * Len(stSecret) - 1)] % 2
              = FrameBit(stSecret, 32 + 8 * Len(stSecret) - 1)
    /\ Len(stSecret) = Capacity(stCover) + 1 =>
         /\ stPhase = "hideFailed"
         /\ stError = ErrTooLarge
         /\ stImage = NoImage
    /\ stPhase = "hidden" <=> Len(stSecret) <= Capacity(stCover)

C6_Witness ==
  /\ stPhase = "hideFailed"
  /\ Capacity(stCover) = 2
  /\ Len(stSecret) = 3
  /\ stImage = NoImage

\* C7 as claimed: reveal returns a payload exactly when the declared length
\* L satisfies 1 <= L <= capacity(W,H), and fails with the corruption error
\* otherwise
C7_RevealRejectsAboveCapacity ==
  stPhase \in {"revealed", "revealFailed"} =>
    LET enough == 3 * stRevealIn.w * stRevealIn.h >= 32
        L == IF enough THEN DeclaredLength(stRevealIn) ELSE 0
    IN IF enough /\ 1 <= L /\ L <= Capacity(stRevealIn)
       THEN stPhase = "revealed"
       ELSE stPhase = "revealFailed" /\ stError = ErrNoHidden

\* C8: after hide, frame bit k is the least significant bit of channel
\* k mod 3 of pixel floor(k / 3), for every k below 32 + 8 * len(payload)
C8_ContinuousBitstream ==
  stPhase = "hidden" =>
    \A k \in 0..(32 + 8 * Len(stSecret) - 1) :
      stImage.px[SampleOf(k)] % 2 = FrameBit(stSecret, k)

C8_Witness ==
  /\ stPhase = "hidden"
  /\ stSecret = <<165, 0>>
  /\ stImage.px[SampleOf(32)] % 2 = 1
  /\ stImage.px[SampleOf(33)] % 2 = 0

(***************************************************************************)
(* Properties of the container codec, checked under SpecCodec.             *)
(***************************************************************************)
\* the buffer parsed is one that buildEncryptedFile produced
ParsedAfterBuild == cdPhase = "parsed" /\ cdInput # NoInput

\* the offset N - 4 - M of the metadata in the buffer parsed
MetadataStartOf(bytes) ==
  Len(bytes) - 4 - GetU32LE(Slice(bytes, Len(bytes) - 4, Len(bytes)))

C10_AcceptedAtLeast36 ==
  (cdPhase = "parsed" /\ cdParsed.ok) =>
    /\ Len(cdBytes) >= 36
    /\ MetadataStartOf(cdBytes) >= 28
    /\ MetadataStartOf(cdBytes) <= Len(cdBytes)

(***************************************************************************)
(* Properties of encryption and decryption, checked under SpecApp.         *)
(***************************************************************************)
\* handleDecryption has run to its end on the file selected
DecryptionEnded == decPc \in {"decrypted", "failed"}

\* the password typed for decryption is the one typed for encryption
\* (none in password-less mode)
SamePassword == decryptPassword = encRun.password

\* C1 as claimed: for every plaintext (of size 0, 1, C-1, C, C+1, a
\* multiple of C) and in both modes, decrypting the container that
\* encryption downloaded, with the same password, returns exactly the
\* plaintext
C1_RoundTripEverySize ==
  (DecryptionEnded /\ ~tampered /\ SamePassword) =>
    (decPc = "decrypted" /\ decrypted.present /\ decrypted.data = encRun.file.data)

\* C2 as claimed: within one encryption run the nonces passed to
\* encryptChunk for two different chunk indices are different
C2_DistinctNonces ==
  \A i, j \in 1..Len(nonceLog) : i # j => nonceLog[i] # nonceLog[j]

\* C3: for every container that encryption produced and every single-bit
\* flip inside its ciphertext region, decryption returns no plaintext, and
\* (a password typed where the container requires one) it fails with the
\* authentication error
C3_TamperDetected ==
  (DecryptionEnded /\ tampered) =>
    /\ decPc = "failed"
    /\ decrypted = NoFile
    /\ (encRun.usePassword => decryptPassword # <<>>) => decryptStatus = ErrDecryption

C3_Witness ==
  /\ tampered
  /\ decPc = "failed"
  /\ decryptStatus = ErrDecryption
  /\ SamePassword
  /\ encRun.usePassword
  /\ Len(encRun.encryptedChunks) = 1
  /\ Len(encRun.file.data) = CHUNK_SIZE

\* C4: decrypting a password-protected container with a password that is
\* not the one used at encryption fails with the authentication error and
\* returns no plaintext
C4_WrongPassword ==
  (DecryptionEnded /\ encRun.usePassword /\ decryptPassword # <<>> /\ ~SamePassword) =>
    /\ decPc = "failed"
    /\ decryptStatus = ErrDecryption
    /\ decrypted = NoFile

C4_Witness ==
  /\ decPc = "failed"
  /\ ~tampered
  /\ encRun.usePassword
  /\ encRun.password = <<112>>
  /\ decryptPassword = <<113, 233>>
  /\ Len(encRun.encryptedChunks) = 1
  /\ decryptStatus = ErrDecryption
  /\ decrypted = NoFile

\* a value is a Metadata record: an object holding version, filename and
\* mimeType strings, the hasPassword flag, the chunksCount and timestamp
\* numbers, and a key that is null or an array of numbers
IsMetadataRecord(v) ==
  /\ v.t = "object"
  /\ Prop(v, K_version).t = "string"
  /\ Prop(v, K_filename).t = "string"
  /\ Prop(v, K_mimeType).t = "string"
  /\ Prop(v, K_hasPassword).t = "boolean"
  /\ Prop(v, K_chunksCount).t = "number"
  /\ Prop(v, K_timestamp).t = "number"
  /\ Prop(v, K_key).t \in {"null", "array"}

\* the metadata bytes of a buffer decode to a Metadata record
DecodesToRecord(bytes) ==
  \E parsed \in {JSONParse(Utf8Decode(Slice(bytes, MetadataStartOf(bytes), Len(bytes) - 4)))} :
    parsed.ok /\ IsMetadataRecord(parsed.v)

\* a buffer is structurally invalid: too short, a trailing length of 0, a
\* metadata start before offset 28, or metadata bytes that do not decode
\* to a Metadata record
StructurallyInvalid(bytes) ==
  \/ Len(bytes) < 32
  \/ GetU32LE(Slice(bytes, Len(bytes) - 4, Len(bytes))) = 0
  \/ MetadataStartOf(bytes) < 28
  \/ ~DecodesToRecord(bytes)

\* C11 as claimed: parseEncryptedFile fails with a format error and
\* returns no parsed fields for every structurally invalid buffer
C11_InvalidRejected ==
  (cdPhase = "parsed" /\ StructurallyInvalid(cdBytes)) =>
    /\ ~cdParsed.ok
    /\ cdParsed.error \in {ErrTooSmall, ErrMetadataLength, ErrOverlap, ErrMetadataJSON}
    /\ cdParsed.metadata = JUndefined
    /\ cdParsed.encryptedData = <<>>

(***************************************************************************)
(* Properties of key preparation, checked under SpecKeys.                  *)
(***************************************************************************)
\* C12: Decryptor.prepareKey fails with the missing-password error, no key
\* derived, when metadata.hasPassword is true and the password is empty
\* or absent; fails with the malformed-metadata error when hasPassword is
\* false and metadata.key is absent; otherwise returns the key derived
\* from (password, salt) when hasPassword is true, and the imported
\* embedded key (a raw key of a length importKey accepts) when it is false
C12_PrepareKeyCases ==
  kmPhase = "decryptionKey" =>
    LET hasPassword == Prop(kmInput.metadata, K_hasPassword)
        key == Prop(kmInput.metadata, K_key)
    IN /\ (hasPassword = JBool(TRUE) /\ kmInput.password = <<>>) =>
            (~kmResult.ok /\ kmResult.error = ErrPasswordRequired /\ kmResult.key = NoKey)
       /\ (hasPassword = JBool(TRUE) /\ kmInput.password # <<>>) =>
            /\ kmResult.ok
            /\ kmResult.key.derived
            /\ kmResult.key.material = Utf8Encode(kmInput.password)
            /\ kmResult.key.salt = kmInput.salt
       /\ (hasPassword = JBool(FALSE) /\ key \in {JNull, JUndefined}) =>
            (~kmResult.ok /\ kmResult.error = ErrMissingKey /\ kmResult.key = NoKey)
       /\ (hasPassword = JBool(FALSE) /\ key.t = "array" /\ Len(key.s) = 32) =>
            /\ kmResult.ok
            /\ ~kmResult.key.derived
            /\ kmResult.key.material = key.s

C12_Witness ==
  /\ kmPhase = "decryptionKey"
  /\ Prop(kmInput.metadata, K_hasPassword) = JBool(TRUE)
  /\ Prop(kmInput.metadata, K_key) = JArr(Filled(32, 11))
  /\ kmInput.password = <<>>
  /\ kmResult.error = ErrPasswordRequired

\* C14 as claimed: KeyManager.deriveKey(password, salt) never returns a
\* key when password is the empty string
C14_EmptyPasswordRejected ==
  (kmPhase = "derived" /\ kmInput.password = <<>>) => (~kmResult.ok /\ kmResult.key = NoKey)

(***************************************************************************)
(* Properties of the containers of both encryption paths (checked under    *)
(* SpecContainers).                                                        *)
(***************************************************************************)
\* the metadata of a container holds a raw key exactly when its
\* hasPassword is false, and null as key when it is true
KeyOnlyWithoutPassword(container) ==
  \E parsed \in {parseEncryptedFile(container)} :
    /\ parsed.ok
    /\ Prop(parsed.metadata, K_hasPassword).t = "boolean"
    /\ Prop(parsed.metadata, K_key).t = "array" <=> ~Prop(parsed.metadata, K_hasPassword).b
    /\ Prop(parsed.metadata, K_hasPassword).b => Prop(parsed.metadata, K_key) = JNull

\* C13: in every container either encryption path produces (the file
\* handleEncryption downloads, the buffer the hide click builds) the
\* metadata holds a raw key if and only if hasPassword is false, and a
\* password-protected container holds null as key.
C13_RawKeyIffNoPassword ==
  /\ downloaded.present => KeyOnlyWithoutPassword(downloaded.data)
  /\ stegoContainer # <<>> => KeyOnlyWithoutPassword(stegoContainer)

\* a hide click with a password built a container and the image was saved
C13_Witness ==
  /\ stegoPc = "hidden"
  /\ stegoDownloaded.present
  /\ \E parsed \in {parseEncryptedFile(stegoContainer)} :
       parsed.ok /\ Prop(parsed.metadata, K_hasPassword) = JBool(TRUE)

(***************************************************************************)
(* Properties of the chunked reader (checked under SpecApp).               *)
(***************************************************************************)
\* the reader of the run has yielded its last chunk
ReaderExhausted ==
  \/ encPc = "done"
  \/ encPc = "read" /\ encRun.offset >= Len(encRun.file.data)

\* the data of the items yielded, in the order of the yields
YieldedData == [i \in 1..Len(encRun.yielded) |-> encRun.yielded[i].data]

\* C15: readChunks yields its items with the indices 0, 1, 2, ... in
\* this order; once it is exhausted over a source of N bytes it has yielded
\* ceil(N / CHUNK_SIZE) = totalChunks items, each but the last of
\* CHUNK_SIZE bytes, the last of N - CHUNK_SIZE * (ceil(N / CHUNK_SIZE) - 1)
\* bytes, and the chunks concatenated in index order are the source.
C15_ChunksPartitionSource ==
  /\ \A i \in 1..Len(encRun.yielded) : encRun.yielded[i].index = i - 1
  /\ ReaderExhausted =>
       LET N == Len(encRun.file.data)
           n == Len(encRun.yielded)
       IN /\ n * CHUNK_SIZE >= N
          /\ (n - 1) * CHUNK_SIZE < N \/ n = 0
          /\ n = getTotalChunks(encRun.file)
          /\ \A i \in 1..(n - 1) : Len(encRun.yielded[i].data) = CHUNK_SIZE
          /\ n > 0 => Len(encRun.yielded[n].data) = N - (CHUNK_SIZE * (n - 1))
          /\ ConcatAll(YieldedData) = encRun.file.data

\* the reader is exhausted over a source that is no multiple of the chunk
\* size: several chunks, the last one shorter
C15_Witness ==
  /\ ReaderExhausted
  /\ Len(encRun.yielded) >= 2
  /\ Len(encRun.yielded[Len(encRun.yielded)].data) < CHUNK_SIZE
  /\ Len(encRun.file.data) = MaxFileSize

(***************************************************************************)
(* Properties of BlobBuilder (checked under SpecBlob).                     *)
(***************************************************************************)
\* the indices addChunk was called with before the last build
AddedIndices == {bbBuilt.order[k].index : k \in 1..Len(bbBuilt.order)}

\* the data of the last addChunk call with this index before the last build
LatestAdded(index) ==
  bbBuilt.order[CHOOSE k \in 1..Len(bbBuilt.order) :
                  /\ bbBuilt.order[k].index = index
                  /\ \A j \in (k + 1)..Len(bbBuilt.order) : bbBuilt.order[j].index # index].data

\* C16: when the chunks with the indices 0..n-1 have been added, in
\* whatever order, build returns the chunks concatenated in increasing
\* index order.
C16_IndexOrder ==
  \A n \in 1..(MaxChunkIndex + 1) :
    bbBuilt.returned /\ AddedIndices = 0..(n - 1) =>
      bbBuilt.data = ConcatAll([i \in 1..n |-> LatestAdded(i - 1)])

\* a blob was built from chunks of different data that arrived in
\* decreasing index order
C16_Witness ==
  /\ bbBuilt.returned
  /\ Len(bbBuilt.order) >= 2
  /\ AddedIndices = 0..(Len(bbBuilt.order) - 1)
  /\ bbBuilt.order[1].index > bbBuilt.order[2].index
  /\ bbBuilt.order[1].data # bbBuilt.order[2].data

\* the array a blob was built from has a hole below its highest index
BuiltOverGap == \E i \in 1..Len(bbBuilt.chunks) : ~bbBuilt.chunks[i].defined

\* C18: build returns no blob while an index below the highest index
\* added has not been added.
C18_NoBlobOverGap == bbBuilt.returned => ~BuiltOverGap

(***************************************************************************)
(* Properties of the crypto worker (checked under SpecWorker).             *)
(***************************************************************************)
\* C19: every message the worker posts carries the taskId of the request
\* that caused it, and every chunk-encrypted and chunk-decrypted message
\* carries the chunkIndex of that request.
C19_ResponsesCorrelated ==
  \A k \in 1..Len(wkOutbox) :
    /\ wkOutbox[k].hasTaskId /\ wkOutbox[k].taskId = wkOutbox[k].request.taskId
    /\ wkOutbox[k].type \in {"chunk-encrypted", "chunk-decrypted"} =>
         wkOutbox[k].hasChunkIndex /\ wkOutbox[k].chunkIndex = wkOutbox[k].request.chunkIndex

\* C20: a decryption with a wrong password and a decryption of a
\* container whose ciphertext was corrupted end in the same outcome: the
\* run fails, the same message is shown, no plaintext is returned.
C20_SameFailure ==
  (/\ DecryptionEnded
   /\ \/ encRun.usePassword /\ decryptPassword # <<>> /\ ~SamePassword
      \/ tampered /\ (encRun.usePassword => decryptPassword # <<>>)) =>
    <<decPc, decryptStatus, decrypted>> = <<"failed", ErrDecryption, NoFile>>

\* an intact one-chunk container decrypted with another password than the
\* one it was encrypted with
C20_Witness ==
  /\ DecryptionEnded
  /\ ~tampered
  /\ encRun.password = <<113, 233>>
  /\ decryptPassword = <<112>>
  /\ Len(encRun.encryptedChunks) = 1
  /\ <<decPc, decryptStatus, decrypted>> = <<"failed", ErrDecryption, NoFile>>

\* C17: a run calls Downloader.download at most once; when it has called
\* it, every chunk of the file has been read and encrypted and what was
\* downloaded is the complete container; a run that failed has not called
\* it.
C17_DownloadOnceWhenComplete ==
  /\ encRun.downloads <= 1
  /\ encPc = "failed" => encRun.downloads = 0
  /\ encRun.downloads = 1 =>
       /\ encPc = "done"
       /\ Len(encRun.encryptedChunks) = getTotalChunks(encryptFile)
       /\ ConcatAll(YieldedData) = encryptFile.data
       /\ \A i \in 1..Len(encRun.encryptedChunks) :
            encRun.encryptedChunks[i] = encryptChunk(encRun.yielded[i].data, encRun.key, encRun.iv)
       /\ \E now \in Timestamps : downloaded.data = RunContainer(encRun, encryptFile, now)

\* a run over a file of several chunks has downloaded its container
C17_Witness ==
  /\ encPc = "done"
  /\ encRun.downloads = 1
  /\ downloaded.present
  /\ Len(encRun.encryptedChunks) >= 2

\* a run failed after it had encrypted a chunk
C17_FailedRun ==
  /\ encPc = "failed"
  /\ encRun.encryptedChunks # <<>>
  /\ encRun.downloads = 0

C22_OnlyFrameBitsChange ==
  stPhase = "hidden" =>
    /\ stImage.w = stCover.w /\ stImage.h = stCover.h
    /\ Len(stImage.px) = Len(stCover.px)
    /\ \A idx \in 1..Len(stCover.px) :
         /\ idx % 4 = 0 => stImage.px[idx] = stCover.px[idx]
         /\ stImage.px[idx] \div 2 = stCover.px[idx] \div 2
    /\ \A k \in (32 + 8 * Len(stSecret))..(3 * stCover.w * stCover.h - 1) :
         stImage.px[SampleOf(k)] = stCover.px[SampleOf(k)]

\* a payload shorter than the capacity was hidden in a cover with
\* translucent pixels, and pixels were changed
C22_Witness ==
  /\ stPhase = "hidden"
  /\ Len(stSecret) >= 1
  /\ Len(stSecret) < Capacity(stCover)
  /\ stCover.px[4] = 128
  /\ stImage # stCover

\* C24 as claimed: reveal returns as many bytes as the first 32 least
\* significant bits declare, and bit b (most significant first) of byte i
\* is the least significant bit of the colour channel at traversal
\* position 32 + 8 * i + b
C24_RevealReadsBitstream ==
  stPhase = "revealed" =>
    /\ Len(stRevealOut) = DeclaredLength(stRevealIn)
    /\ \A i \in 0..(Len(stRevealOut) - 1), b \in 0..7 :
         /\ 32 + 8 * i + b < 3 * stRevealIn.w * stRevealIn.h
         /\ (stRevealOut[i + 1] \div Pow2(7 - b)) % 2
              = stRevealIn.px[SampleOf(32 + 8 * i + b)] % 2

\* the chunksCount of the metadata of a container is count and its
\* ciphertext region is the concatenation of chunks
CountsChunks(container, chunks, count) ==
  \E parsed \in {parseEncryptedFile(container)} :
    /\ parsed.ok
    /\ Prop(parsed.metadata, K_chunksCount) = JNum(count)
    /\ Len(chunks) = count
    /\ parsed.encryptedData = ConcatAll(chunks)

\* C23: the chunksCount of every container that encryption produced is
\* the number of ciphertext chunks in its ciphertext region: ceil(N / C) for
\* the container handleEncryption downloads for a file of N bytes, 1 for
\* the container of the hide click.
C23_ChunksCountIsChunkNumber ==
  /\ downloaded.present =>
       /\ CountsChunks(downloaded.data, encRun.encryptedChunks, getTotalChunks(encRun.file))
       /\ getTotalChunks(encRun.file) * CHUNK_SIZE >= Len(encRun.file.data)
       /\ (getTotalChunks(encRun.file) - 1) * CHUNK_SIZE < Len(encRun.file.data)
            \/ Len(encRun.file.data) = 0
  /\ stegoContainer # <<>> =>
       \E entry \in sealed : CountsChunks(stegoContainer, <<entry[3]>>, 1)

\* the container of a file of several chunks was downloaded
C23_Witness ==
  /\ downloaded.present
  /\ Len(encRun.encryptedChunks) >= 2
  /\ \E parsed \in {parseEncryptedFile(downloaded.data)} :
       Prop(parsed.metadata, K_chunksCount) = JNum(Len(encRun.encryptedChunks))

\* C25: for every plaintext of 1..CHUNK_SIZE bytes, with a password and
\* without, the container handleEncryption downloaded has chunksCount 1
\* and one ciphertext chunk, and handleDecryption of it with the same
\* password returns exactly the plaintext.
C25_SingleChunkRoundTrip ==
  (/\ DecryptionEnded
   /\ ~tampered
   /\ SamePassword
   /\ 1 <= Len(encRun.file.data)
   /\ Len(encRun.file.data) <= CHUNK_SIZE) =>
    /\ Len(encRun.encryptedChunks) = 1
    /\ Prop(parseEncryptedFile(decryptFile.data).metadata, K_chunksCount) = JNum(1)
    /\ decPc = "decrypted"
    /\ decrypted.present
    /\ decrypted.data = encRun.file.data

\* a file of exactly one full chunk, encrypted without a password, came
\* back from decryption
C25_Witness ==
  /\ decPc = "decrypted"
  /\ ~tampered
  /\ ~encRun.usePassword
  /\ Len(encRun.file.data) = CHUNK_SIZE
  /\ decrypted.data = encRun.file.data
  /\ encRun.keyData # <<>>

(***************************************************************************)
(* Properties of the encryption page under every order of its events       *)
(* (checked under SpecEncPage).                                            *)
(***************************************************************************)
\* a run of handleEncryption is between the click and its end
RunInProgress == encPc \in {"prepareKey", "read", "encrypt"}

\* C26 as claimed: the name and the type in the metadata of the container
\* downloaded, and the name of the download, are those of the file whose
\* bytes were encrypted
C26_MetadataOfEncryptedFile ==
  downloaded.present =>
    \E parsed \in {parseEncryptedFile(downloaded.data)} :
      /\ parsed.ok
      /\ Prop(parsed.metadata, K_filename) = JStr(encRun.file.name)
      /\ Prop(parsed.metadata, K_mimeType) =
           JStr(IF encRun.file.type # <<>> THEN encRun.file.type ELSE OctetStream)
      /\ downloaded.name = getEncryptedFilename(encRun.file.name)

\* C27 as claimed: while a run is in progress the encrypt button is
\* disabled
C27_ButtonDisabledDuringRun == RunInProgress => encryptBtnDisabled

\* C28 as claimed: a file that is selected with the button enabled stays
\* selected with the button enabled until a step selects another file or
\* starts the encryption
C28_SelectionKept ==
  [][(encryptFile.present /\ ~encryptBtnDisabled) =>
       \/ encryptFile'.present /\ ~encryptBtnDisabled'
       \/ encPc = "idle" /\ encPc' = "prepareKey" /\ encryptFile' = encryptFile]_vars

(***************************************************************************)
(* Properties of the progress bar (checked under SpecProgress).            *)
(***************************************************************************)
\* C29 as claimed: the values passed to update during a successful run are
\* 0, then round(offset / N * 100) for each chunk in index order, then 95,
\* then 100, and this sequence never decreases
C29_ProgressNonDecreasing ==
  pgPc = "complete" =>
    LET n == getTotalChunks(pgFile)
    IN /\ Len(pgLog) = n + 3
       /\ pgLog[1] = 0
       /\ \A i \in 1..n : pgLog[i + 1] = ChunkProgress(pgFile, CHUNK_SIZE * (i - 1))
       /\ pgLog[n + 2] = 95
       /\ pgLog[n + 3] = 100
       /\ \A i \in 1..(Len(pgLog) - 1) : pgLog[i] <= pgLog[i + 1]
       /\ \A i \in 1..Len(pgLog) : ClampProgress(pgLog[i]) = pgLog[i]

\* the number of messages the worker has posted for the request posted as
\* number t
Answers(t) == Cardinality({k \in 1..Len(wkOutbox) : wkOutbox[k].request.taskId = t})

\* C30 as claimed: for every message delivered to the worker, a request of
\* an unknown type, one without data and one whose handler throws included,
\* the worker eventually has posted a response, and never more than one
C30_EveryMessageAnswered ==
  /\ \A t \in 1..MaxTasks : (wkPosted >= t) ~> (Answers(t) = 1)
  /\ [](\A t \in 1..MaxTasks : Answers(t) <= 1)

====
